---- MODULE Spec2Model ----
(***************************************************************************)
(* A model of the document-processing core of legal-rag-system:            *)
(*   - HybridDocumentProcessor._chunk_text_simple, one loop iteration per  *)
(*     step (specifications SpecChunk and FairSpecChunk);                   *)
(*   - LegalMetadataExtractor.extract_all on judgment texts, its regular   *)
(*     expressions matched as Python's re matches them (SpecMeta);          *)
(*   - the ingestion of one uploaded document: upload_document, the        *)
(*     background task process_uploaded_document, process_document with    *)
(*     the external parser's outcomes, the vector store and                 *)
(*     get_document_status (Spec; SpecFault makes a local step raise);      *)
(*   - concurrent calls of process_document on the processor singleton,     *)
(*     interleaved at the awaited parser call (SpecConc).                   *)
(* Texts are sequences of one-character strings; Python's 0-based slice    *)
(* text[a:b] is SubSeq(text, a + 1, b).                                     *)
(***************************************************************************)
EXTENDS Integers, Sequences, FiniteSets, TLC

(***************************************************************************)
(* Bounds of the model.                                                     *)
(***************************************************************************)
\* longest short text drawn as chunker input
MaxLen == 5
\* largest chunk_size argument drawn
MaxSize == 3
\* largest overlap argument drawn (reaches overlap >= chunk_size)
MaxOverlap == 3
\* most lines of a judgment text given to extract_all
MaxLines == 2
\* number of concurrent process_document calls
NumCalls == 2
\* most calls made on the LlamaIndexRAG
MaxRagCalls == 6

(***************************************************************************)
(* Program constants.                                                       *)
(***************************************************************************)
\* processor.py:360  max_chunks = 1000  # Safety limit
max_chunks == 1000
\* processor.py:347  chunk_size: int = 1000
DefaultChunkSize == 1000
\* processor.py:347  overlap: int = 200
DefaultOverlap == 200

\* the value of a local variable that has not been assigned (no text: its one
\* element is not a character)
Unset == <<"<unset>">>

Alphabet == {"a", "b", " "}

Min(S) == CHOOSE x \in S : \A y \in S : x <= y
Max(S) == CHOOSE x \in S : \A y \in S : x >= y
MinInt(a, b) == IF a <= b THEN a ELSE b

\* all sequences over S of length 0..n
SeqsUpTo(S, n) == UNION {[1..k -> S] : k \in 0..n}

\* x in xs, for a list xs
InList(x, xs) == \E i \in 1..Len(xs) : xs[i] = x

(***************************************************************************)
(* Python str operations.                                                   *)
(***************************************************************************)
\* the characters str.strip() removes (those the model's texts can hold)
Whitespace == {" ", "\n", "\r", "\t"}
IsSpace(c) == c \in Whitespace

\* text[a:b] for 0 <= a and b <= len(text); empty when a >= b
Slice(text, a, b) == SubSeq(text, a + 1, b)

\* str.strip(): leading and trailing whitespace removed
Strip(s) ==
  LET keep == {i \in 1..Len(s) : ~IsSpace(s[i])}
  IN IF keep = {} THEN <<>> ELSE SubSeq(s, Min(keep), Max(keep))

(***************************************************************************)
(* Characters and Python's re module, as LegalMetadataExtractor uses it.    *)
(* Every search in processor.py passes re.IGNORECASE: a character matches a *)
(* class when its upper-case form is in the class, and classes are written  *)
(* here in upper case.                                                      *)
(***************************************************************************)
\* the characters of a string literal
Chars(str) == [i \in 1..Len(str) |-> SubSeq(str, i, i)]

Range(f) == {f[i] : i \in DOMAIN f}

LowerLetters == Chars("abcdefghijklmnopqrstuvwxyz")
UpperLetters == Chars("ABCDEFGHIJKLMNOPQRSTUVWXYZ")
Letters == Range(UpperLetters)
Digits == Range(Chars("0123456789"))
\* \s
\* \w, upper-cased
WordChars == Letters \cup Digits \cup {"_"}

\* str.upper() and str.lower() of one character
UpperOf == [c \in Range(LowerLetters) |-> UpperLetters[CHOOSE i \in 1..26 : LowerLetters[i] = c]]
LowerOf == [c \in Range(UpperLetters) |-> LowerLetters[CHOOSE i \in 1..26 : UpperLetters[i] = c]]
ToUpper(c) == IF c \in DOMAIN UpperOf THEN UpperOf[c] ELSE c
ToLower(c) == IF c \in DOMAIN LowerOf THEN LowerOf[c] ELSE c
Upper(s) == [i \in 1..Len(s) |-> ToUpper(s[i])]
Lower(s) == [i \in 1..Len(s) |-> ToLower(s[i])]

\* str.strip() with Python's whitespace
StripWs(s) ==
  LET keep == {i \in 1..Len(s) : s[i] \notin Whitespace}
  IN IF keep = {} THEN <<>> ELSE SubSeq(s, Min(keep), Max(keep))

\* "sub in s"
Contains(s, sub) ==
  \E i \in 0..(Len(s) - Len(sub)) : SubSeq(s, i + 1, i + Len(sub)) = sub

\* mutant: the name is kept as written
Title_Unchanged(s) == s

\* str.title(): a letter is upper-cased after a non-letter, lower-cased after a letter
Title(s) ==
  [i \in 1..Len(s) |->
     IF i > 1 /\ ToUpper(s[i - 1]) \in Letters THEN ToLower(s[i]) ELSE ToUpper(s[i])]

\* str.split(sep) for a one-character sep: the pieces between the separators
RECURSIVE SplitFrom(_, _, _)
SplitFrom(s, sep, from) ==
  LET hits == {i \in from..Len(s) : s[i] = sep}
  IN IF hits = {} THEN <<SubSeq(s, from, Len(s))>>
     ELSE <<SubSeq(s, from, Min(hits) - 1)>> \o SplitFrom(s, sep, Min(hits) + 1)
Split(s, sep) == SplitFrom(s, sep, 1)

\* "sep".join(parts)
RECURSIVE Join(_, _)
Join(parts, sep) ==
  IF parts = <<>> THEN <<>>
  ELSE IF Len(parts) = 1 THEN parts[1]
  ELSE parts[1] \o sep \o Join(SubSeq(parts, 2, Len(parts)), sep)

\* xs[:n]
Take(xs, n) == SubSeq(xs, 1, MinInt(n, Len(xs)))

(* Regular expressions are trees:
     [k |-> "set", s |-> S]                      one character of class S
     [k |-> "rep", s |-> S, lo, hi, greedy]      S{lo,hi}, hi = -1 for no limit
     [k |-> "opt", r |-> r]                      (?:r)?
     [k |-> "seq", xs |-> <<r1, ..., rn>>]       r1 r2 ... rn
     [k |-> "alt", xs |-> <<r1, ..., rn>>]       r1|r2|...|rn
     [k |-> "grp", n |-> n, r |-> r]             capturing group n
   The text is upper-cased once per search and matched against the classes;
   the offsets found are offsets of the original text.
   A thread is <<offset, caps>>: the 0-based offset reached and the groups'
   <<start, end>> spans. Match returns the threads in the order in which
   Python's backtracking matcher would try them, so the first is its match. *)
CSet(S) == [k |-> "set", s |-> S]
CRep(S, lo, hi, greedy) == [k |-> "rep", s |-> S, lo |-> lo, hi |-> hi, greedy |-> greedy]
Plus(S) == CRep(S, 1, 0 - 1, TRUE)
Star(S) == CRep(S, 0, 0 - 1, TRUE)
LazyPlus(S) == CRep(S, 1, 0 - 1, FALSE)
Opt(r) == [k |-> "opt", r |-> r]
Cat(xs) == [k |-> "seq", xs |-> xs]
Alt(xs) == [k |-> "alt", xs |-> xs]
Grp(n, r) == [k |-> "grp", n |-> n, r |-> r]
\* a literal string, matched case-insensitively
Lit(str) == Cat([i \in 1..Len(str) |-> CSet({ToUpper(SubSeq(str, i, i))})])

NoSpan == <<0 - 1, 0 - 1>>
NoCaps == <<NoSpan, NoSpan, NoSpan>>

\* how many characters from offset i on belong to class S
RunLength(s, i, S) ==
  LET others == {j \in (i + 1)..Len(s) : s[j] \notin S}
  IN IF others = {} THEN Len(s) - i ELSE Min(others) - 1 - i

RECURSIVE Match(_, _, _, _), MatchEach(_, _, _, _), MatchSeq(_, _, _, _), MatchAlt(_, _, _, _, _)
\* the threads of r started at offset i of the upper-cased text s
Match(r, s, i, caps) ==
  CASE r.k = "set" ->
         IF i < Len(s) /\ s[i + 1] \in r.s THEN <<<<i + 1, caps>>>> ELSE <<>>
    [] r.k = "rep" ->
         LET run == RunLength(s, i, r.s)
             most == IF r.hi >= 0 /\ r.hi < run THEN r.hi ELSE run
             count == IF most >= r.lo THEN most - r.lo + 1 ELSE 0
         IN [n \in 1..count |->
               <<i + (IF r.greedy THEN most - n + 1 ELSE r.lo + n - 1), caps>>]
    [] r.k = "opt" -> Match(r.r, s, i, caps) \o <<<<i, caps>>>>
    [] r.k = "seq" -> MatchSeq(r.xs, 1, s, <<<<i, caps>>>>)
    [] r.k = "alt" -> MatchAlt(r.xs, 1, s, i, caps)
    [] r.k = "grp" ->
         LET Close(ts) ==
               [n \in 1..Len(ts) |-> <<ts[n][1], [ts[n][2] EXCEPT ![r.n] = <<i, ts[n][1]>>]>>]
         IN Close(Match(r.r, s, i, caps))
\* r continued from each of the threads ts[n..], in order
MatchEach(r, s, ts, n) ==
  IF n > Len(ts) THEN <<>>
  ELSE Match(r, s, ts[n][1], ts[n][2]) \o MatchEach(r, s, ts, n + 1)
MatchSeq(xs, n, s, ts) ==
  IF n > Len(xs) \/ ts = <<>> THEN ts
  ELSE MatchSeq(xs, n + 1, s, MatchEach(xs[n], s, ts, 1))
MatchAlt(xs, n, s, i, caps) ==
  IF n > Len(xs) THEN <<>>
  ELSE Match(xs[n], s, i, caps) \o MatchAlt(xs, n + 1, s, i, caps)

\* the result of a search that found nothing (Python's None)
None == [none |-> TRUE]

\* re.search(r, s) from offset i on: the leftmost match, as [start, end, caps]
SearchFrom(r, s, i) ==
  LET Threads(u, j) == Match(r, u, j, NoCaps)
      Found(start, first) == [start |-> start, end |-> first[1], caps |-> first[2]]
      Leftmost(u, starts) ==
        IF starts = {} THEN None ELSE Found(Min(starts), Threads(u, Min(starts))[1])
      From(u) == Leftmost(u, {j \in i..Len(s) : Threads(u, j) # <<>>})
  IN From(Upper(s))
Search(r, s) == SearchFrom(r, s, 0)

\* match.group(0) and match.group(n)
Group0(s, m) == Slice(s, m.start, m.end)
Group(s, m, n) == Slice(s, m.caps[n][1], m.caps[n][2])

\* re.finditer(r, s): the non-overlapping matches, left to right
RECURSIVE FindIterFrom(_, _, _)
FindIterFrom(r, s, i) ==
  LET Rest(m) ==
        IF m = None THEN <<>>
        ELSE <<m>> \o FindIterFrom(r, s, IF m.end > m.start THEN m.end ELSE m.end + 1)
  IN Rest(SearchFrom(r, s, i))
FindIter(r, s) == FindIterFrom(r, s, 0)

(***************************************************************************)
(* Python values held in the metadata dict, tagged so that any two can be   *)
(* compared; a str is the sequence of its characters.                       *)
(***************************************************************************)
PyNone == [t |-> "none"]
PyStr(v) == [t |-> "str", v |-> v]
PyInt(v) == [t |-> "int", v |-> v]
PyList(v) == [t |-> "list", v |-> v]

\* mutant: on a key of both dicts the first dict's value is kept
DictMerge_FirstWins(a, b) ==
  [k \in (DOMAIN a) \cup (DOMAIN b) |-> IF k \in DOMAIN a THEN a[k] ELSE b[k]]

\* {**a, **b}
DictMerge(a, b) ==
  [k \in (DOMAIN a) \cup (DOMAIN b) |-> IF k \in DOMAIN b THEN b[k] ELSE a[k]]
EmptyDict == [k \in {} |-> PyNone]

\* list(S)[:cap] for a set S: Python fixes no iteration order of a set of str,
\* so every order of every cap-element selection is possible
ListsOfSet(S, cap) ==
  LET n == MinInt(Cardinality(S), cap)
  IN {q \in [1..n -> S] : \A i, j \in 1..n : i # j => q[i] # q[j]}

\* the values of a list, as a set
Elements(xs) == {xs[i] : i \in 1..Len(xs)}

(***************************************************************************)
(* LegalMetadataExtractor.                                                  *)
(***************************************************************************)
\* processor.py:23  AIR\s+\d{4}\s+[A-Z]+\s+\d+
AirPattern ==
  Cat(<<Lit("AIR"), Plus(Whitespace), CRep(Digits, 4, 4, TRUE), Plus(Whitespace),
        Plus(Letters), Plus(Whitespace), Plus(Digits)>>)
\* processor.py:24  \(\d{4}\)\s+\d+\s+SCC\s+\d+
SccPattern ==
  Cat(<<Lit("("), CRep(Digits, 4, 4, TRUE), Lit(")"), Plus(Whitespace), Plus(Digits),
        Plus(Whitespace), Lit("SCC"), Plus(Whitespace), Plus(Digits)>>)
\* processor.py:25  \d{4}\s+SCC\s+\(\w+\)\s+\d+
SccSeriesPattern ==
  Cat(<<CRep(Digits, 4, 4, TRUE), Plus(Whitespace), Lit("SCC"), Plus(Whitespace),
        Lit("("), Plus(WordChars), Lit(")"), Plus(Whitespace), Plus(Digits)>>)
\* processor.py:26  \d{4}\s+SCR\s+\d+
ScrPattern ==
  Cat(<<CRep(Digits, 4, 4, TRUE), Plus(Whitespace), Lit("SCR"), Plus(Whitespace),
        Plus(Digits)>>)

\* the first pattern of the list, from index n on, that matches anywhere in the
\* text, with its match: [n, m], or None
RECURSIVE FirstMatching(_, _, _)
FirstMatching(patterns, s, n) ==
  IF n > Len(patterns) THEN None
  ELSE LET Try(m) ==
             IF m # None THEN [n |-> n, m |-> m] ELSE FirstMatching(patterns, s, n + 1)
       IN Try(Search(patterns[n], s))

\* processor.py:22-27: the patterns of extract_citation, in list order
CitationPatterns == <<AirPattern, SccPattern, SccSeriesPattern, ScrPattern>>

\* mutant: of the patterns' matches the one that starts first in the text is
\* returned (the higher-priority pattern's among those that start together)
extract_citation_Leftmost(s) ==
  LET Hits(ms) == {n \in 1..Len(ms) : ms[n] # None}
      Better(ms, a, b) == ms[a].start < ms[b].start \/ (ms[a].start = ms[b].start /\ a <= b)
      Pick(ms) ==
        IF Hits(ms) = {} THEN PyNone
        ELSE PyStr(Group0(s, ms[CHOOSE a \in Hits(ms) : \A b \in Hits(ms) : Better(ms, a, b)]))
  IN Pick([n \in 1..Len(CitationPatterns) |-> Search(CitationPatterns[n], s)])

\* processor.py:20-33
extract_citation(s) ==
  LET Citation(hit) == IF hit # None THEN PyStr(Group0(s, hit.m)) ELSE PyNone
  IN Citation(FirstMatching(CitationPatterns, s, 1))

\* mutant: the "elif 'HIGH COURT'" branch is missing
CourtLevel_NoHighCourt(court_name) ==
  IF Contains(Upper(court_name), Chars("SUPREME COURT")) THEN Chars("Supreme Court")
  ELSE Chars("District Court")

\* processor.py:49-54: the level of a court name
CourtLevel(court_name) ==
  IF Contains(Upper(court_name), Chars("SUPREME COURT")) THEN Chars("Supreme Court")
  ELSE IF Contains(Upper(court_name), Chars("HIGH COURT")) THEN Chars("High Court")
  ELSE Chars("District Court")

\* processor.py:35-56: the pair (court_name, court_level)
extract_court(s) ==
  LET court_patterns ==
        <<Grp(1, Lit("SUPREME COURT OF INDIA")),
          Grp(1, Cat(<<Lit("HIGH COURT OF "), Plus(Letters \cup Whitespace)>>)),
          Grp(1, Cat(<<Plus(Letters \cup Whitespace), Lit(" HIGH COURT")>>))>>
      Level(court_name) == <<PyStr(court_name), PyStr(CourtLevel(court_name))>>
      Court(hit) ==
        IF hit # None THEN Level(Title(Group(s, hit.m, 1))) ELSE <<PyNone, PyNone>>
  IN Court(FirstMatching(court_patterns, s, 1))

\* processor.py:58-68: the list of names
extract_judges(s) ==
  LET coram_pattern ==
        Cat(<<Lit("CORAM:"), Star(Whitespace),
              Grp(1, LazyPlus(Letters \cup Whitespace \cup {",", "."})),
              Alt(<<Lit("\n"), Lit("\r"), Lit("JUDGMENT")>>)>>)
      Names(parts) == [i \in 1..Len(parts) |-> StripWs(parts[i])]
      Judges(m) ==
        IF m # None THEN Take(Names(Split(StripWs(Group(s, m, 1)), ",")), 5) ELSE <<>>
  IN Judges(Search(coram_pattern, s))

\* processor.py:70-73
extract_bench_strength(s) ==
  LET Strength(judges) == IF judges # <<>> THEN PyInt(Len(judges)) ELSE PyNone
  IN Strength(extract_judges(s))

\* str.zfill(2)
ZFill2(d) == IF Len(d) < 2 THEN <<"0">> \o d ELSE d

\* processor.py:75-92: the dict of dates
extract_dates(s) ==
  LET date ==
        <<Grp(1, CRep(Digits, 1, 2, TRUE)), CSet({"/", "-"}),
          Grp(2, CRep(Digits, 1, 2, TRUE)), CSet({"/", "-"}),
          Grp(3, CRep(Digits, 4, 4, TRUE))>>
      decision_patterns ==
        <<Cat(<<Lit("DATED"), Plus({":"} \cup Whitespace)>> \o date),
          Cat(<<Lit("JUDGMENT"), Plus(Whitespace), Lit("DATED"),
                Plus({":"} \cup Whitespace)>> \o date)>>
      Dates(hit) ==
        IF hit # None
        THEN LET day == Group(s, hit.m, 1)
                 month == Group(s, hit.m, 2)
                 year == Group(s, hit.m, 3)
             IN [k \in {"decision_date"} |->
                   PyStr(year \o <<"-">> \o ZFill2(month) \o <<"-">> \o ZFill2(day))]
        ELSE EmptyDict
  IN Dates(FirstMatching(decision_patterns, s, 1))

\* processor.py:94-106: the list of party lines
extract_parties(s) ==
  LET lines == Take(Split(s, "\n"), 30)
      IsPartyLine(line) ==
        \/ Contains(Lower(line), Chars("vs"))
        \/ Contains(Lower(line), Chars("v."))
        \/ Contains(Lower(line), Chars("versus"))
      hits == SelectSeq(lines, IsPartyLine)
  IN [i \in 1..MinInt(2, Len(hits)) |-> StripWs(hits[i])]

\* processor.py:115  Section\s+(\d+[A-Z]?)\s+(?:of\s+)?(?:the\s+)?([A-Z][A-Za-z\s,]+(?:Act|Code))
SectionPattern ==
  Cat(<<Lit("Section"), Plus(Whitespace),
        Grp(1, Cat(<<Plus(Digits), CRep(Letters, 0, 1, TRUE)>>)), Plus(Whitespace),
        Opt(Cat(<<Lit("of"), Plus(Whitespace)>>)), Opt(Cat(<<Lit("the"), Plus(Whitespace)>>)),
        Grp(2, Cat(<<CSet(Letters), Plus(Letters \cup Whitespace \cup {","}),
                     Alt(<<Lit("Act"), Lit("Code")>>)>>))>>)
\* processor.py:116  Article\s+(\d+[A-Z]?)\s+of\s+(?:the\s+)?Constitution
ArticlePattern ==
  Cat(<<Lit("Article"), Plus(Whitespace),
        Grp(1, Cat(<<Plus(Digits), CRep(Letters, 0, 1, TRUE)>>)), Plus(Whitespace),
        Lit("of"), Plus(Whitespace), Opt(Cat(<<Lit("the"), Plus(Whitespace)>>)),
        Lit("Constitution")>>)

\* re.findall: per match, the tuple of its groups when the pattern has several
\* groups, the one group's str when it has one, the whole match when it has
\* none. An item is given by its elements, as Python's len(), unpacking and
\* indexing see them: the groups of a tuple, the one-character strs of a str.
FindAll(r, s, groups) ==
  LET OneChars(str) == [c \in 1..Len(str) |-> <<str[c]>>]
      Items(ms) ==
        [i \in 1..Len(ms) |->
           IF groups >= 2 THEN [g \in 1..groups |-> Group(s, ms[i], g)]
           ELSE IF groups = 1 THEN OneChars(Group(s, ms[i], 1))
           ELSE OneChars(Group0(s, ms[i]))]
  IN Items(FindIter(r, s))
\* a findall item that is a str, as that str
ItemStr(item) == [c \in 1..Len(item) |-> item[c][1]]

\* processor.py:119-128: what one findall item adds to (acts, sections)
ActOfItem(item) ==
  IF Len(item) = 2 THEN StripWs(item[2]) ELSE Chars("Constitution of India")
SectionOfItem(item) ==
  IF Len(item) = 2
  THEN Chars("Section ") \o item[1] \o Chars(" of ") \o StripWs(item[2])
  ELSE Chars("Article ") \o item[1] \o Chars(" of Constitution")

\* processor.py:108-128: the sets acts and sections
ActsAndSections(s) ==
  LET Sets(items) ==
        [acts |-> {ActOfItem(items[i]) : i \in 1..Len(items)},
         sections |-> {SectionOfItem(items[i]) : i \in 1..Len(items)}]
  IN Sets(FindAll(SectionPattern, s, 2) \o FindAll(ArticlePattern, s, 1))

\* processor.py:130-133: the possible returned dicts
extract_acts_and_sections(s) ==
  LET Dicts(found) ==
        {[k \in {"acts_cited", "sections_cited"} |->
            IF k = "acts_cited" THEN PyList(a) ELSE PyList(b)] :
           a \in ListsOfSet(found.acts, 10), b \in ListsOfSet(found.sections, 20)}
  IN Dicts(ActsAndSections(s))

\* processor.py:135-147: the possible returned lists
extract_precedents(s) ==
  LET Citations(matches) == {ItemStr(matches[i]) : i \in 1..Len(matches)}
  IN ListsOfSet(Citations(FindAll(AirPattern, s, 0) \o FindAll(SccPattern, s, 0)), 20)

\* processor.py:153-158
SegmentKinds == <<"facts", "issues", "arguments", "held">>
SegmentPattern(kind) ==
  CASE kind = "facts" ->
         Alt(<<Cat(<<Lit("FACT"), Opt(Lit("S"))>>), Lit("BACKGROUND"), Lit("BRIEF FACTS")>>)
    [] kind = "issues" ->
         Alt(<<Cat(<<Lit("ISSUE"), Opt(Lit("S"))>>),
               Cat(<<Lit("POINT"), Opt(Lit("S")), Lit(" FOR CONSIDERATION")>>),
               Cat(<<Lit("QUESTION"), Opt(Lit("S"))>>)>>)
    [] kind = "arguments" ->
         Alt(<<Cat(<<Lit("ARGUMENT"), Opt(Lit("S"))>>),
               Cat(<<Lit("SUBMISSION"), Opt(Lit("S"))>>),
               Cat(<<Lit("CONTENTION"), Opt(Lit("S"))>>)>>)
    [] kind = "held" ->
         Alt(<<Lit("HELD"), Lit("JUDGMENT"), Lit("DECISION"), Lit("ORDER")>>)

\* processor.py:160-166: the (start, segment_type) pairs, sorted. The four
\* patterns begin with different letters, so no two pairs share a start and the
\* order of the pairs is the order of their starts.
SectionPositions(s) ==
  LET Before(found, p) == {q \in found : q[1] < p[1]}
      Sorted(found) ==
        [i \in 1..Cardinality(found) |->
           CHOOSE p \in found : Cardinality(Before(found, p)) = i - 1]
  IN Sorted(UNION {{<<m.start, SegmentKinds[k]>> :
                      m \in Elements(FindIter(SegmentPattern(SegmentKinds[k]), s))} :
                   k \in 1..Len(SegmentKinds)})

\* mutant: every segment runs to the end of the text
SegmentEnd_ToEndOfText(section_positions, i, s) == Len(s)

\* processor.py:169-172: where the segment of the i-th pair ends
SegmentEnd(section_positions, i, s) ==
  IF i + 1 <= Len(section_positions) THEN section_positions[i + 1][1] ELSE Len(s)

\* mutant: a later pair of the kind replaces the segment
SegmentOwner_Last(section_positions, kind) ==
  Max({i \in 1..Len(section_positions) : section_positions[i][2] = kind})

\* processor.py:176-177: "if segment_type not in segments": the first pair of a
\* kind decides the kind's segment
SegmentOwner(section_positions, kind) ==
  Min({i \in 1..Len(section_positions) : section_positions[i][2] = kind})

\* mutant: full_text is added to the segments found as well
FullTextFallback_Always(segments, s) ==
  [k \in DOMAIN segments \cup {"full_text"} |->
     IF k = "full_text" THEN PyStr(s) ELSE segments[k]]

\* processor.py:179-180: "if not segments: segments['full_text'] = text"
FullTextFallback(segments, s) ==
  IF DOMAIN segments = {} THEN [k \in {"full_text"} |-> PyStr(s)] ELSE segments

\* processor.py:149-182
segment_judgment(s) ==
  LET Segments(section_positions) ==
        LET kinds == {section_positions[i][2] : i \in 1..Len(section_positions)}
            SegmentText(i) ==
              StripWs(Slice(s, section_positions[i][1], SegmentEnd(section_positions, i, s)))
        IN FullTextFallback(
             [kind \in kinds |-> PyStr(SegmentText(SegmentOwner(section_positions, kind)))], s)
  IN Segments(SectionPositions(s))

\* mutant: empty values are removed along with None
KeepValue_NonEmpty(v) == v # PyNone /\ (v.t \in {"str", "list"} => v.v # <<>>)

\* processor.py:209: "if v is not None"
KeepValue(v) == v # PyNone

\* processor.py:184-214: the possible results {metadata, segments}
extract_all(s) ==
  LET fields == {"citation", "court_name", "court_level", "judges",
                 "bench_strength", "parties", "precedents_cited"}
      Own(citation, court, judges, bench_strength, parties, precedents) ==
        [k \in fields |->
           CASE k = "citation" -> citation
             [] k = "court_name" -> court[1]
             [] k = "court_level" -> court[2]
             [] k = "judges" -> PyList(judges)
             [] k = "bench_strength" -> bench_strength
             [] k = "parties" -> PyList(parties)
             [] k = "precedents_cited" -> PyList(precedents)]
      WithoutNone(metadata) ==
        [k \in {k \in DOMAIN metadata : KeepValue(metadata[k])} |-> metadata[k]]
      Results(citation, court, judges, bench_strength, dates, parties, segments,
              all_acts_sections, all_precedents) ==
        {[metadata |-> WithoutNone(DictMerge(DictMerge(
                         Own(citation, court, judges, bench_strength, parties, precedents),
                         dates), acts_sections)),
          segments |-> segments] :
           acts_sections \in all_acts_sections, precedents \in all_precedents}
  IN Results(extract_citation(s), extract_court(s), extract_judges(s),
             extract_bench_strength(s), extract_dates(s), extract_parties(s),
             segment_judgment(s), extract_acts_and_sections(s), extract_precedents(s))

(***************************************************************************)
(* _chunk_text_simple: state of one call.                                   *)
(***************************************************************************)
VARIABLES
  c_pc,          \* "call" (entered), "loop" (at the while test), "done" (returned)
  text,          \* argument text
  chunk_size,    \* argument chunk_size
  overlap,       \* argument overlap
  position,      \* local position
  chunk_count,   \* local chunk_count
  chunks,        \* local chunks; the returned list once c_pc = "done"
  chunk,         \* local chunk of the latest iteration
  final_chunk,   \* local final_chunk, Unset until assigned
  spans          \* for each element of chunks, the slice <<start, end>> it was cut from

cvars == <<c_pc, text, chunk_size, overlap, position, chunk_count, chunks,
           chunk, final_chunk, spans>>

\* extract_all: state of one call
VARIABLES
  m_pc,          \* "idle", "call" (entered), "done" (returned)
  m_text,        \* argument text
  m_result       \* the returned {metadata, segments}, NoResult before the return

mvars == <<m_pc, m_text, m_result>>

\* ingestion of one uploaded document: upload_document, the background task
\* process_uploaded_document, process_document and get_document_status
VARIABLES
  USE_COGNITA_FOR_PARSING,  \* settings.USE_COGNITA_FOR_PARSING
  cognita_client,    \* HybridDocumentProcessor.cognita_client: CognitaClient or PyNone
  fault,             \* the local step made to raise in this run: "none", "chunking", "metadata"
  file,              \* the uploaded file
  upload_dir,        \* document ids of the files in documents/uploads
  response,          \* the reply to the upload request
  t_pc,              \* process_uploaded_document: "none", "scheduled", "processing",
                     \* "storing", "ended_ok", "ended_no_chunks", "ended_exception",
                     \* "cancelled"
  chunk_texts,       \* its local chunk_texts
  embeddings,        \* its local embeddings
  chunk_metadatas,   \* its local chunk_metadatas
  add_calls,         \* number of calls of VectorStore.add_documents
  index,             \* the points upserted into the vector store
  p_pc,              \* process_document: "idle", "start", "await_parser", "fallback",
                     \* "manual", "extract_meta", "combine", "returned", "raised",
                     \* "cancelled"
  cognita_result,    \* what cognita_client.upload_document did, NoReply before
  full_text,         \* its local full_text
  doc_chunks,        \* its local chunks
  cognita_metadata,  \* its local cognita_metadata
  legal_data,        \* its local legal_data
  result,            \* the returned ProcessedDocument, PyNone when none was returned
  p_error,           \* the error it raised: "", "extraction", "chunking", "metadata", "TypeError"
  status_reply       \* the latest reply of get_document_status, NoStatus before

pvars == <<USE_COGNITA_FOR_PARSING, cognita_client, fault, file, upload_dir, response,
           t_pc, chunk_texts, embeddings, chunk_metadatas, add_calls, index,
           p_pc, cognita_result, full_text, doc_chunks, cognita_metadata, legal_data,
           result, p_error, status_reply>>

\* concurrent process_document calls on the one processor
VARIABLES
  frames             \* for each call, its frame: pc ("idle", "await_parser", "returned",
                     \* "raised"), the arguments (file, file_path), what the parser call
                     \* did, the returned document, the error raised, and whether
                     \* another call was suspended when this one resumed

qvars == <<frames>>

\* VectorStore.search and count: state of one call with filters
VARIABLES
  f_pc,              \* "idle", "call" (entered), "built" (filter built), "done"
  filters,           \* argument filters: the items of the dict, in order
  record,            \* the payload of the stored point the filter is applied to
  filter_conditions, \* local filter_conditions: the Filter, PyNone for none
  hit                \* whether the store returns (counts) the point

fvars == <<f_pc, filters, record, filter_conditions, hit>>

\* application startup and the service singletons of embedder.py and
\* vector_store.py
VARIABLES
  u_pc,              \* startup_event: "idle", "boot", "cognita_checked", "store_ready",
                     \* "model_ready", "started" (returned), "failed" (raised)
  cognita_health,    \* what the Cognita check of startup_event found, "" before
  startup_store,     \* startup_event's local vector_store, PyNone before it is made
  startup_embedder,  \* startup_event's local embedder, PyNone before it is made
  g_vector_store,    \* vector_store.py:260 _vector_store: a VectorStore or PyNone
  g_embedder,        \* embedder.py:87 _embedder: an Embedder or PyNone
  class_model_loaded,\* the class attribute Embedder._model_loaded
  request_inits      \* the first initializations performed after startup: pairs of
                     \* who did it ("request" or "task") and the service

uvars == <<u_pc, cognita_health, startup_store, startup_embedder, g_vector_store,
           g_embedder, class_model_loaded, request_inits>>

\* the LlamaIndexRAG singleton of llamaindex_service.py
VARIABLES
  rag,               \* its attributes _initialized, index and query_engine
  l_calls,           \* number of calls made on it
  l_last             \* the latest call: its operation, the state it found, whether it
                     \* ran initialize and how that ended, and which attribute it
                     \* used in which state

lvars == <<rag, l_calls, l_last>>

\* the services behind the endpoints
svars == <<fvars, uvars, lvars>>

vars == <<cvars, mvars, pvars, qvars, svars>>

NoResult == [metadata |-> EmptyDict, segments |-> EmptyDict]

\* processor.py:225: the client the processor holds
CognitaClient == [t |-> "client"]
NoReply == [kind |-> "none"]
NoFile == [filename |-> <<>>, size |-> 0, corrupt |-> FALSE, text |-> <<>>]

Calls == 1..NumCalls

\* the frame of a call that has not been made
IdleFrame ==
  [pc |-> "idle", file |-> NoFile, file_path |-> PyNone, cognita_result |-> NoReply,
   result |-> PyNone, error |-> "", overlapped |-> FALSE]

\* no concurrent call has been made
ConcIdle == frames = [i \in Calls |-> IdleFrame]

\* no search or count has been made
FilterIdle ==
  /\ f_pc = "idle" /\ filters = <<>> /\ record = <<>>
  /\ filter_conditions = PyNone /\ hit = FALSE

\* the application has not been started
StartupIdle ==
  /\ u_pc = "idle" /\ cognita_health = ""
  /\ startup_store = PyNone /\ startup_embedder = PyNone
  /\ g_vector_store = PyNone /\ g_embedder = PyNone
  /\ class_model_loaded = FALSE /\ request_inits = {}

\* llamaindex_service.py:20-23: LlamaIndexRAG()
NewRag == [initialized |-> FALSE, index |-> [t |-> "none"], query_engine |-> [t |-> "none"]]

NoCall ==
  [op |-> "none", flag_before |-> FALSE, partial_before |-> FALSE, attempted |-> FALSE,
   init_raised |-> FALSE, used |-> "none", flag_at_use |-> FALSE, set_at_use |-> FALSE,
   raised |-> FALSE]

\* no call has been made on the LlamaIndexRAG
RagIdle == rag = NewRag /\ l_calls = 0 /\ l_last = NoCall

ServiceIdle == FilterIdle /\ StartupIdle /\ RagIdle

\* no call of the other operation is in progress
ChunkIdle ==
  /\ c_pc = "idle" /\ text = <<>> /\ chunk_size = DefaultChunkSize
  /\ overlap = DefaultOverlap /\ position = 0 /\ chunk_count = 0 /\ chunks = <<>>
  /\ chunk = Unset /\ final_chunk = Unset /\ spans = <<>>
MetaIdle == m_pc = "idle" /\ m_text = <<>> /\ m_result = NoResult

NoResponse == [status_code |-> 0]
NoStatus == [document_id |-> ""]

\* nothing uploaded yet, no task scheduled, process_document not called
PipeStart ==
  /\ file = NoFile /\ upload_dir = {} /\ response = NoResponse
  /\ t_pc = "none" /\ chunk_texts = <<>> /\ embeddings = <<>> /\ chunk_metadatas = <<>>
  /\ add_calls = 0 /\ index = <<>>
  /\ p_pc = "idle" /\ cognita_result = NoReply /\ full_text = <<>> /\ doc_chunks = <<>>
  /\ cognita_metadata = PyNone /\ legal_data = NoResult /\ result = PyNone
  /\ p_error = "" /\ status_reply = NoStatus

\* config_fixed.py:17 (USE_COGNITA_FOR_PARSING: bool = True), processor.py:225
PipeIdle ==
  /\ USE_COGNITA_FOR_PARSING = TRUE /\ cognita_client = CognitaClient /\ fault = "none"
  /\ PipeStart

\* the long inputs: a pattern repeated to one character past the iteration
\* limit, the shortest length at which the limit ends the loop
LongPatterns == {<<"a">>, <<"a", " ">>}
LongLen == max_chunks + 1
Repeat(pat, n) == [i \in 1..n |-> pat[((i - 1) % Len(pat)) + 1]]
LongTexts == {Repeat(p, LongLen) : p \in LongPatterns}

ChunkTexts == SeqsUpTo(Alphabet, MaxLen) \cup LongTexts
ChunkSizes == 1..MaxSize
\* with the empty text the call returns before chunk_size is read: any integer
EmptyTextSizes == (0 - 1)..MaxSize
Overlaps == (0 - 1)..MaxOverlap

\* mutant: the safety check resets to the same position (no "+ 1")
NextPosition_NoProgress(pos, size, ovl) ==
  LET next_position == pos + size - ovl
  IN IF next_position <= pos THEN pos ELSE next_position

\* mutant: the window advances one character too far
NextPosition_Gap(pos, size, ovl) ==
  LET next_position == pos + size - ovl + 1
  IN IF next_position <= pos THEN pos + 1 ELSE next_position

\* processor.py:378-380: the position after one iteration
NextPosition(pos, size, ovl) ==
  LET next_position == pos + size - ovl
  IN IF next_position <= pos THEN pos + 1 ELSE next_position

\* mutant: the window is appended even when it stripped to the empty string
AppendIfNonEmpty_Always(cs, c) == Append(cs, c)

\* processor.py:372-373: "if chunk: chunks.append(chunk)"
AppendIfNonEmpty(cs, c) == IF c # <<>> THEN Append(cs, c) ELSE cs

\* mutant: the final chunk is appended without the duplicate test
KeepFinal_NoDedup(cs, fc) == fc # <<>>

\* processor.py:388: "if final_chunk and final_chunk not in chunks"
KeepFinal(cs, fc) == fc # <<>> /\ ~InList(fc, cs)

\* mutant: the empty text yields one empty chunk
EmptyTextResult_OneEmptyChunk == << <<>> >>

\* processor.py:352-354: "if not text or len(text) == 0: return []"
EmptyTextResult == <<>>

ChunkInit ==
  /\ c_pc = "call"
  /\ text \in ChunkTexts
  /\ chunk_size \in IF text = <<>> THEN EmptyTextSizes ELSE ChunkSizes
  /\ overlap \in Overlaps
  /\ position = 0
  /\ chunk_count = 0
  /\ chunks = <<>>
  /\ chunk = Unset
  /\ final_chunk = Unset
  /\ spans = <<>>
  /\ MetaIdle
  /\ PipeIdle
  /\ ConcIdle
  /\ ServiceIdle

\* processor.py:352-360: the empty-text return, else the locals' initial values
ChunkEnter ==
  /\ c_pc = "call"
  /\ c_pc' = IF Len(text) = 0 THEN "done" ELSE "loop"
  /\ chunks' = IF Len(text) = 0 THEN EmptyTextResult ELSE <<>>
  /\ position' = 0
  /\ chunk_count' = 0
  /\ UNCHANGED <<text, chunk_size, overlap, chunk, final_chunk, spans>>
  /\ UNCHANGED <<mvars, pvars, qvars, svars>>

\* processor.py:363-391: the loop body applied to the locals st, up to the end
\* of the iteration or the break; pc is "done" after the break
LoopBody(t, size, ovl, st) ==
  LET text_length == Len(t)
      chunk_end == MinInt(st.position + size, text_length)
      c == Strip(Slice(t, st.position, chunk_end))
      cs == AppendIfNonEmpty(st.chunks, c)
      sp == IF Len(cs) > Len(st.chunks) THEN Append(st.spans, <<st.position, chunk_end>>)
                                        ELSE st.spans
      np == NextPosition(st.position, size, ovl)
      fc == Strip(Slice(t, np, text_length))
      breaks == text_length - np < size
      tail == breaks /\ np < text_length
  IN [pc |-> IF breaks THEN "done" ELSE "loop",
      position |-> np,
      chunk_count |-> st.chunk_count + 1,
      chunk |-> c,
      final_chunk |-> IF tail THEN fc ELSE st.final_chunk,
      chunks |-> IF tail /\ KeepFinal(cs, fc) THEN Append(cs, fc) ELSE cs,
      spans |-> IF tail /\ KeepFinal(cs, fc) THEN Append(sp, <<np, text_length>>) ELSE sp]

\* processor.py:362: the while test
LoopTest(t, st) == st.position < Len(t) /\ st.chunk_count < max_chunks

\* processor.py:357-360: the locals before the loop
LoopStart ==
  [pc |-> "loop", position |-> 0, chunk_count |-> 0, chunk |-> Unset,
   final_chunk |-> Unset, chunks |-> <<>>, spans |-> <<>>]

RECURSIVE RunLoop(_, _, _, _)
\* processor.py:362-394: the loop run to its end
RunLoop(t, size, ovl, st) ==
  IF st.pc = "loop" /\ LoopTest(t, st) THEN RunLoop(t, size, ovl, LoopBody(t, size, ovl, st))
  ELSE st

\* processor.py:347-394: the list a whole call returns
chunk_text_simple(t, size, ovl) ==
  IF Len(t) = 0 THEN EmptyTextResult ELSE RunLoop(t, size, ovl, LoopStart).chunks

\* processor.py:362-391: one iteration of the while loop, up to its end or break
ChunkIterate ==
  /\ c_pc = "loop"
  /\ LET st == [pc |-> c_pc, position |-> position, chunk_count |-> chunk_count,
                chunk |-> chunk, final_chunk |-> final_chunk, chunks |-> chunks,
                spans |-> spans]
     IN /\ LoopTest(text, st)
        /\ \E after \in {LoopBody(text, chunk_size, overlap, st)} :
              /\ c_pc' = after.pc
              /\ position' = after.position
              /\ chunk_count' = after.chunk_count
              /\ chunk' = after.chunk
              /\ final_chunk' = after.final_chunk
              /\ chunks' = after.chunks
              /\ spans' = after.spans
  /\ UNCHANGED <<text, chunk_size, overlap>>
  /\ UNCHANGED <<mvars, pvars, qvars, svars>>

\* processor.py:362, 393-394: the while test fails, the list is returned
ChunkReturn ==
  /\ c_pc = "loop"
  /\ ~(position < Len(text) /\ chunk_count < max_chunks)
  /\ c_pc' = "done"
  /\ UNCHANGED <<text, chunk_size, overlap, position, chunk_count, chunks,
                 chunk, final_chunk, spans>>
  /\ UNCHANGED <<mvars, pvars, qvars, svars>>

ChunkNext == ChunkEnter \/ ChunkIterate \/ ChunkReturn

SpecChunk == ChunkInit /\ [][ChunkNext]_vars

\* the call is one synchronous computation: it keeps running until it returns
FairSpecChunk == SpecChunk /\ WF_vars(ChunkNext)

(***************************************************************************)
(* Claims about _chunk_text_simple.                                         *)
(***************************************************************************)
\* a step that ran the loop body
IsIteration == chunk_count' # chunk_count

\* the claims' "non-empty text and chunk_size > overlap >= 0"
SaneConfig == Len(text) > 0 /\ chunk_size > overlap /\ overlap >= 0

\* the character at 1-based position i lies in the source slice of an emitted chunk
Covered(i) == \E k \in 1..Len(spans) : spans[k][1] < i /\ i <= spans[k][2]

\* C1: for every text, chunk_size >= 1 and overlap (overlap >= chunk_size
\* included) the call terminates: every loop iteration strictly increases the
\* position, by chunk_size - overlap or by 1 when that is not positive, and the
\* loop body runs at most 1000 times.
C1_Terminates ==
  /\ [][IsIteration =>
          /\ position' > position
          /\ position' = position + (IF chunk_size - overlap > 0
                                     THEN chunk_size - overlap ELSE 1)
          /\ chunk_count' <= 1000]_vars
  /\ <>(c_pc = "done")

\* C1 witness: a call with overlap >= chunk_size has returned after running the
\* loop body 1000 times.
C1_Witness == c_pc = "done" /\ overlap >= chunk_size /\ chunk_count = 1000

\* C7 (as claimed): for a non-empty text and chunk_size > overlap >= 0 the
\* returned list has at most 1000 elements.
C7_AtMost1000Chunks ==
  (c_pc = "done" /\ SaneConfig) => Len(chunks) <= 1000

\* C8 (as claimed): for a non-empty text and chunk_size > overlap >= 0 the
\* chunks reconstruct the input: every non-whitespace character lies in the
\* source slice of some returned chunk, and consecutive chunks share at most
\* overlap characters.
C8_Reconstructs ==
  (c_pc = "done" /\ SaneConfig) =>
    /\ \A i \in 1..Len(text) : ~IsSpace(text[i]) => Covered(i)
    /\ \A k \in 1..(Len(spans) - 1) : spans[k][2] - spans[k + 1][1] <= overlap

\* C8 (amended): the same, when the windows reach the end of the text within
\* the 1000 iterations, except for a final tail whose stripped text equals a
\* chunk already in the list (that tail is not emitted again).
C8_ReconstructsAmended ==
  (c_pc = "done" /\ SaneConfig /\ Len(text) - position < chunk_size) =>
    /\ \A i \in 1..Len(text) :
          ~IsSpace(text[i]) =>
            \/ Covered(i)
            \/ i > position /\ final_chunk # Unset /\ InList(final_chunk, chunks)
    /\ \A k \in 1..(Len(spans) - 1) : spans[k][2] - spans[k + 1][1] <= overlap

\* C8 witness: a returned call whose chunks overlap and whose final tail was
\* emitted as a chunk of its own.
C8_Witness ==
  /\ c_pc = "done" /\ SaneConfig /\ overlap > 0
  /\ Len(chunks) >= 3
  /\ final_chunk # Unset /\ spans[Len(spans)] = <<position, Len(text)>>

\* the list after the window of this iteration, before the tail is looked at
AfterWindow == AppendIfNonEmpty(chunks, chunk')

\* a step whose advance left a tail shorter than chunk_size (the loop breaks)
IsTailStep == IsIteration /\ Len(text) - position' < chunk_size

\* the stripped tail, empty when the advance passed the end of the text
TailText == IF position' < Len(text) THEN Strip(Slice(text, position', Len(text))) ELSE <<>>

\* C9 (as claimed): when the advance leaves a tail shorter than chunk_size, the
\* stripped tail is emitted as the final chunk iff it is non-empty and differs
\* from the immediately preceding chunk, and the loop stops.
C9_TailUnlessEqualsPrevious ==
  [][IsTailStep =>
       /\ c_pc' = "done"
       /\ chunks' = IF TailText # <<>> /\ (AfterWindow = <<>> \/ TailText # AfterWindow[Len(AfterWindow)])
                    THEN Append(AfterWindow, TailText) ELSE AfterWindow]_vars

\* C9 (amended): ... iff it is non-empty and differs from every chunk already
\* in the list, and the loop stops.
C9_TailUnlessAlreadyEmitted ==
  [][IsTailStep =>
       /\ c_pc' = "done"
       /\ chunks' = IF TailText # <<>> /\ \A k \in 1..Len(AfterWindow) : AfterWindow[k] # TailText
                    THEN Append(AfterWindow, TailText) ELSE AfterWindow]_vars

\* C9 witness: a returned call that cut a non-empty tail equal to an earlier,
\* non-adjacent chunk and did not emit it.
C9_Witness ==
  /\ c_pc = "done" /\ final_chunk # Unset /\ final_chunk # <<>>
  /\ Len(chunks) >= 2
  /\ chunks[Len(chunks)] # final_chunk
  /\ InList(final_chunk, chunks)

(***************************************************************************)
(* extract_all on judgment texts (specification SpecMeta). A text is a list *)
(* of lines joined by "\n"; the lines are drawn from phrases that the       *)
(* extractor's patterns match, partly match or do not match.               *)
(***************************************************************************)
MetaLines ==
  {Chars(""), Chars("AIR 2020 SC 123"), Chars("(2019) 3 SCC 45"), Chars("2018 SCR 77"),
   Chars("SUPREME COURT OF INDIA"), Chars("Delhi High Court"), Chars("CORAM: A, B, C, D, E, F"),
   Chars("DATED: 5-6-2020 JUDGMENT"), Chars("P vs R"),
   Chars("Section 5 of the Evidence Act"), Chars("Article 21 of the Constitution"),
   Chars("FACTS: x"), Chars("HELD: y"), Chars("lorem")}
\* the seven-line judgment of the end-to-end scenario
ScenarioLines ==
  <<Chars("AIR 2020 SC 123"), Chars("SUPREME COURT OF INDIA"), Chars("CORAM: J. SMITH, J. DOE"),
    Chars("DATED: 05-06-2020 JUDGMENT"), Chars("Petitioner vs Respondent"),
    Chars("FACTS: ..."), Chars("HELD: ...")>>
ScenarioText == Join(ScenarioLines, <<"\n">>)

MetaTexts == {Join(ls, <<"\n">>) : ls \in SeqsUpTo(MetaLines, MaxLines)} \cup {ScenarioText}

MetaInit ==
  /\ m_pc = "call"
  /\ m_text \in MetaTexts
  /\ m_result = NoResult
  /\ ChunkIdle
  /\ PipeIdle
  /\ ConcIdle
  /\ ServiceIdle

\* processor.py:184-214: one call of extract_all
ExtractAll ==
  /\ m_pc = "call"
  /\ m_result' \in extract_all(m_text)
  /\ m_pc' = "done"
  /\ UNCHANGED m_text
  /\ UNCHANGED <<cvars, pvars, qvars, svars>>

MetaNext == ExtractAll

SpecMeta == MetaInit /\ [][MetaNext]_vars

ScalarFields == {"citation", "court_name", "court_level", "bench_strength", "decision_date"}
ListFields == {"judges", "parties", "precedents_cited", "acts_cited", "sections_cited"}

\* C10 (as claimed): in the metadata returned by extract_all no key is present
\* with a null or an empty value; a list field for which nothing was found is
\* absent.
C10_NoNullOrEmptyValue ==
  m_pc = "done" =>
    \A k \in DOMAIN m_result.metadata :
      LET v == m_result.metadata[k]
      IN v # PyNone /\ (v.t \in {"str", "list"} => v.v # <<>>)

\* C10 (amended): no key is present with a null value, so a scalar field
\* (citation, court_name, court_level, bench_strength, decision_date) for
\* which nothing was found is absent, and one that is present is not empty;
\* the list fields judges, parties, precedents_cited, acts_cited and
\* sections_cited are always present, as an empty list when nothing was found.
C10_NoNullValue ==
  m_pc = "done" =>
    LET md == m_result.metadata
    IN /\ DOMAIN md \subseteq ScalarFields \cup ListFields
       /\ \A k \in DOMAIN md : md[k] # PyNone
       /\ \A k \in DOMAIN md \cap ScalarFields : md[k].t = "str" => md[k].v # <<>>
       /\ ("citation" \in DOMAIN md) = (extract_citation(m_text) # PyNone)
       /\ ("bench_strength" \in DOMAIN md) = (extract_judges(m_text) # <<>>)
       /\ \A k \in ListFields : k \in DOMAIN md /\ md[k].t = "list"
       /\ (md["judges"].v = <<>>) = (extract_judges(m_text) = <<>>)

\* C10 witness: a returned metadata in which a citation was found, no court and
\* no judges: court_name is absent, judges is present and empty.
C10_Witness ==
  /\ m_pc = "done"
  /\ "citation" \in DOMAIN m_result.metadata
  /\ "court_name" \notin DOMAIN m_result.metadata
  /\ m_result.metadata["judges"] = PyList(<<>>)

(***************************************************************************)
(* Ingestion of one uploaded document.                                      *)
(***************************************************************************)
PyDict(v) == [t |-> "dict", v |-> v]

\* d.get(k, default)
Get(d, k, default) == IF k \in DOMAIN d THEN d[k] ELSE default

\* config_fixed.py:79  MAX_UPLOAD_SIZE_MB: int = 50
MAX_UPLOAD_SIZE_MB == 50
\* config_fixed.py:80
ALLOWED_EXTENSIONS == {Chars(".pdf"), Chars(".docx"), Chars(".txt"), Chars(".html")}

\* upload.py:136: the id uuid4 gives the one document of a run
DocumentId == "d1"
\* upload.py:113: document_type: str = "judgment"
DocumentType == PyStr(Chars("judgment"))

\* upload.py:128: Path(name).suffix, from the last dot when it is neither the
\* first nor the last character of the name
Suffix(name) ==
  LET dots == {i \in 1..Len(name) : name[i] = "."}
  IN IF dots = {} THEN <<>>
     ELSE IF 1 < Max(dots) /\ Max(dots) < Len(name) THEN SubSeq(name, Max(dots), Len(name))
     ELSE <<>>

\* upload.py:142: documents/uploads/<document_id><file_ext>
FilePath(f) == PyStr(Chars("documents/uploads/d1") \o Lower(Suffix(f.filename)))

\* the uploads drawn: name, size in bytes, whether PyMuPDF can open the saved
\* file, and the text of its pages joined by newlines
FileNames == {Chars("j.pdf"), Chars("J.PDF"), Chars("j.exe"), Chars("j")}
FileSizes == {1, MAX_UPLOAD_SIZE_MB * 1024 * 1024, MAX_UPLOAD_SIZE_MB * 1024 * 1024 + 1}
FileTexts == {Chars(""), Chars(" \n "), Chars("lorem"), Chars("AIR 2020 SC 123\nP vs R")}
Files == [filename : FileNames, size : FileSizes, corrupt : BOOLEAN, text : FileTexts]

Faults == {"none", "chunking", "metadata"}

\* what the call of cognita_client.upload_document can do: raise (client.py:
\* 111-117), or return the JSON body of the parser's reply (client.py:107-110)
Raised == [kind |-> "raise"]
Returned(body) == [kind |-> "return", value |-> body]
CognitaChunk(t) == PyDict([content |-> PyStr(t)])
CognitaResults(f) ==
  {Raised,
   \* one chunk holding the text, metadata of the parser's own, some of it under
   \* keys that the legal metadata, process_document and the index payload use
   \* as well
   Returned(PyDict([chunks |-> PyList(<<CognitaChunk(f.text)>>),
                    metadata |-> PyDict([source |-> PyStr(Chars("cognita")),
                                         citation |-> PyStr(Chars("X")),
                                         judges |-> PyNone,
                                         document_type |-> PyStr(Chars("statute")),
                                         file_path |-> PyStr(Chars("/tmp/x")),
                                         processing_method |-> PyStr(Chars("ocr")),
                                         text |-> PyStr(Chars("X"))])])),
   \* two chunks, no metadata key
   Returned(PyDict([chunks |-> PyList(<<CognitaChunk(f.text), CognitaChunk(Chars("P vs R"))>>)])),
   \* neither key
   Returned(PyDict([num_chunks |-> PyInt(0)])),
   \* malformed: a chunk that is no object, chunks null, a body that is no object
   Returned(PyDict([chunks |-> PyList(<<PyStr(f.text)>>)])),
   Returned(PyDict([chunks |-> PyNone])),
   Returned(PyList(<<>>)),
   \* metadata null
   Returned(PyDict([chunks |-> PyList(<<CognitaChunk(f.text)>>), metadata |-> PyNone]))}

\* processor.py:249-264: the try block on the parser's outcome r: it raises, or
\* assigns full_text, cognita_metadata and chunks
ReadCognitaResult(r) ==
  IF r.kind = "raise" \/ r.value.t # "dict" THEN [raised |-> TRUE]
  ELSE LET found == Get(r.value.v, "chunks", PyList(<<>>))
           Content(c) == Get(c.v, "content", PyStr(<<>>))
       IN IF found.t # "list" THEN [raised |-> TRUE]
          ELSE IF \E i \in 1..Len(found.v) : found.v[i].t # "dict" THEN [raised |-> TRUE]
          ELSE IF \E i \in 1..Len(found.v) : Content(found.v[i]).t # "str" THEN [raised |-> TRUE]
          ELSE [raised |-> FALSE,
                full_text |-> Join([i \in 1..Len(found.v) |-> Content(found.v[i]).v], <<"\n">>),
                cognita_metadata |-> Get(r.value.v, "metadata", PyDict(EmptyDict)),
                chunks |-> found.v]

\* mutant: an unreadable file yields an empty text
extract_text_fallback_Swallow(f) ==
  [raised |-> FALSE, text |-> IF f.corrupt THEN <<>> ELSE f.text]

\* processor.py:330-345: the pages' text, or the error of fitz.open re-raised
extract_text_fallback(f) ==
  IF f.corrupt THEN [raised |-> TRUE] ELSE [raised |-> FALSE, text |-> f.text]

\* mutant: the local path chunks nothing
LocalChunks_None(t) == <<>>

\* processor.py:270, 286: self._chunk_text_simple(full_text), the defaults for
\* chunk_size and overlap
LocalChunks(t) ==
  LET Strs(cs) == [i \in 1..Len(cs) |-> PyStr(cs[i])]
  IN Strs(chunk_text_simple(t, DefaultChunkSize, DefaultOverlap))

\* processor.py:269-271 and 277-292: text extraction, then chunking; an error of
\* either leaves the function
LocalProcessing(f, flt) ==
  LET extracted == extract_text_fallback(f)
  IN IF extracted.raised THEN [raised |-> TRUE, error |-> "extraction"]
     ELSE IF flt = "chunking" THEN [raised |-> TRUE, error |-> "chunking"]
     ELSE [raised |-> FALSE, full_text |-> extracted.text,
           chunks |-> LocalChunks(extracted.text)]

\* processor.py:314
ProcessingMethod(client) == IF client # PyNone THEN Chars("hybrid") ELSE Chars("manual")

\* processor.py:309-324: the ProcessedDocument
ProcessedDocument(file_path, ft, chs, cmeta, legal, client) ==
  [full_text |-> ft,
   chunks |-> chs,
   metadata |-> DictMerge(DictMerge(cmeta, legal.metadata),
                          [document_type |-> DocumentType,
                           file_path |-> file_path,
                           processing_method |-> PyStr(ProcessingMethod(client))]),
   segments |-> legal.segments,
   num_chunks |-> Len(chs),
   num_precedents |-> Len(Get(legal.metadata, "precedents_cited", PyList(<<>>)).v)]

\* mutant: the task goes on without chunks
HasChunks_Always(chs) == TRUE

\* upload.py:56: "if not chunks" fails
HasChunks(chs) == chs # <<>>

\* upload.py:61-68: the text of a chunk
ChunkText(c) == IF c.t = "dict" THEN Get(c.v, "content", PyStr(<<>>)).v ELSE c.v

\* embedder.py:53-67: one vector for each text
Embedding(t) == [vector_of |-> t]

\* upload.py:82-88
ChunkMetadata(base, i, n) ==
  DictMerge(base, [document_id |-> PyStr(Chars(DocumentId)),
                   chunk_index |-> PyInt(i),
                   total_chunks |-> PyInt(n),
                   document_type |-> DocumentType])

\* vector_store.py:90-107: the points built from the zipped arguments, each
\* with the id generated for its embedding
Points(embs, texts, metas) ==
  LET n == MinInt(Len(embs), MinInt(Len(texts), Len(metas)))
  IN [i \in 1..n |->
        [id |-> <<"uuid4", i>>,
         vector |-> embs[i],
         payload |-> DictMerge([text |-> PyStr(texts[i]),
                                created_at |-> PyStr(Chars("now"))], metas[i])]]

\* mutant: the oversized file stays in the upload directory
Unlinked_Kept(dir) == dir

\* upload.py:152: file_path.unlink()
Unlinked(dir) == dir \ {DocumentId}

PipeInit ==
  /\ USE_COGNITA_FOR_PARSING \in BOOLEAN
  /\ cognita_client = IF USE_COGNITA_FOR_PARSING THEN CognitaClient ELSE PyNone
  /\ PipeStart
  /\ ChunkIdle
  /\ MetaIdle
  /\ ConcIdle
  /\ ServiceIdle

\* the code as it is: chunking and extract_all return on every text
Init == PipeInit /\ fault = "none"

\* one of the collaborators' calls may be made to raise
InitFault == PipeInit /\ fault \in Faults

\* upload.py:109-179: the extension check, the file saved, the size check (the
\* saved file deleted when it fails), the task scheduled and the reply
UploadDocument ==
  /\ response = NoResponse
  /\ \E f \in Files :
       /\ file' = f
       /\ IF Lower(Suffix(f.filename)) \notin ALLOWED_EXTENSIONS
          THEN /\ response' = [status_code |-> 400,
                               detail |-> <<"File type not supported", Lower(Suffix(f.filename))>>]
               /\ UNCHANGED <<upload_dir, t_pc>>
          ELSE IF f.size > MAX_UPLOAD_SIZE_MB * 1024 * 1024
          THEN /\ response' = [status_code |-> 400,
                               detail |-> <<"File too large. Maximum size", MAX_UPLOAD_SIZE_MB>>]
               /\ upload_dir' = Unlinked(upload_dir \cup {DocumentId})
               /\ UNCHANGED t_pc
          ELSE /\ response' = [status_code |-> 200, document_id |-> DocumentId,
                               status |-> "processing"]
               /\ upload_dir' = upload_dir \cup {DocumentId}
               /\ t_pc' = "scheduled"
  /\ UNCHANGED <<USE_COGNITA_FOR_PARSING, cognita_client, fault, chunk_texts, embeddings,
                 chunk_metadatas, add_calls, index, p_pc, cognita_result, full_text,
                 doc_chunks, cognita_metadata, legal_data, result, p_error, status_reply>>
  /\ UNCHANGED <<cvars, mvars, qvars, svars>>

\* upload.py:43-52: the background task starts and calls process_document
TaskStart ==
  /\ t_pc = "scheduled"
  /\ t_pc' = "processing"
  /\ p_pc' = "start"
  /\ UNCHANGED <<USE_COGNITA_FOR_PARSING, cognita_client, fault, file, upload_dir, response,
                 chunk_texts, embeddings, chunk_metadatas, add_calls, index,
                 cognita_result, full_text, doc_chunks, cognita_metadata, legal_data,
                 result, p_error, status_reply>>
  /\ UNCHANGED <<cvars, mvars, qvars, svars>>

\* what every step of process_document leaves alone
ProcessFrame ==
  /\ UNCHANGED <<USE_COGNITA_FOR_PARSING, cognita_client, fault, file, upload_dir, response,
                 t_pc, chunk_texts, embeddings, chunk_metadatas, add_calls, index,
                 status_reply>>
  /\ UNCHANGED <<cvars, mvars, qvars, svars>>

\* processor.py:246: the parser is called, or the manual branch is taken
ProcessBegin ==
  /\ p_pc = "start"
  /\ p_pc' = IF cognita_client # PyNone /\ USE_COGNITA_FOR_PARSING THEN "await_parser"
                                                                     ELSE "manual"
  /\ UNCHANGED <<cognita_result, full_text, doc_chunks, cognita_metadata, legal_data,
                 result, p_error>>
  /\ ProcessFrame

\* processor.py:249-268: the awaited call ends; the try block reads its result,
\* and any exception leads to the fallback
CognitaReturns ==
  /\ p_pc = "await_parser"
  /\ \E r \in CognitaResults(file) :
       /\ cognita_result' = r
       /\ LET read == ReadCognitaResult(r)
          IN IF read.raised
             THEN /\ p_pc' = "fallback"
                  /\ UNCHANGED <<full_text, doc_chunks, cognita_metadata>>
             ELSE /\ p_pc' = "extract_meta"
                  /\ full_text' = read.full_text
                  /\ doc_chunks' = read.chunks
                  /\ cognita_metadata' = read.cognita_metadata
  /\ UNCHANGED <<legal_data, result, p_error>>
  /\ ProcessFrame

\* local extraction and chunking, and where process_document goes from there
LocalStep ==
  /\ LET local == LocalProcessing(file, fault)
     IN IF local.raised
        THEN /\ p_pc' = "raised"
             /\ p_error' = local.error
             /\ UNCHANGED <<full_text, doc_chunks, cognita_metadata>>
        ELSE /\ p_pc' = "extract_meta"
             /\ full_text' = local.full_text
             /\ doc_chunks' = local.chunks
             /\ cognita_metadata' = PyDict(EmptyDict)
             /\ UNCHANGED p_error
  /\ UNCHANGED <<cognita_result, legal_data, result>>
  /\ ProcessFrame

\* processor.py:266-271: the except branch
Fallback ==
  /\ p_pc = "fallback"
  /\ LocalStep

\* processor.py:273-292: the else branch
Manual ==
  /\ p_pc = "manual"
  /\ LocalStep

\* processor.py:296-303
ExtractMetadata ==
  /\ p_pc = "extract_meta"
  /\ IF fault = "metadata"
     THEN /\ p_pc' = "raised"
          /\ p_error' = "metadata"
          /\ UNCHANGED legal_data
     ELSE /\ p_pc' = "combine"
          /\ legal_data' \in extract_all(full_text)
          /\ UNCHANGED p_error
  /\ UNCHANGED <<cognita_result, full_text, doc_chunks, cognita_metadata, result>>
  /\ ProcessFrame

\* processor.py:309-328: "**cognita_metadata" needs a mapping
Combine ==
  /\ p_pc = "combine"
  /\ IF cognita_metadata.t # "dict"
     THEN /\ p_pc' = "raised"
          /\ p_error' = "TypeError"
          /\ UNCHANGED result
     ELSE /\ p_pc' = "returned"
          /\ result' = ProcessedDocument(FilePath(file), full_text, doc_chunks, cognita_metadata.v,
                                         legal_data, cognita_client)
          /\ UNCHANGED p_error
  /\ UNCHANGED <<cognita_result, full_text, doc_chunks, cognita_metadata, legal_data>>
  /\ ProcessFrame

\* upload.py:55-97, 105-106: process_document has returned or raised; the task
\* ends, or embeds the chunks and calls add_documents
TaskResume ==
  /\ t_pc = "processing"
  /\ p_pc \in {"returned", "raised"}
  /\ IF p_pc = "raised"
     THEN /\ t_pc' = "ended_exception"
          /\ UNCHANGED <<chunk_texts, embeddings, chunk_metadatas, add_calls>>
     ELSE IF ~HasChunks(result.chunks)
     THEN /\ t_pc' = "ended_no_chunks"
          /\ UNCHANGED <<chunk_texts, embeddings, chunk_metadatas, add_calls>>
     ELSE LET texts == [i \in 1..Len(result.chunks) |-> ChunkText(result.chunks[i])]
          IN /\ chunk_texts' = texts
             /\ \E embedded \in BOOLEAN :
                  IF embedded
                  THEN /\ embeddings' = [i \in 1..Len(texts) |-> Embedding(texts[i])]
                       /\ chunk_metadatas' =
                            [i \in 1..Len(texts) |->
                               ChunkMetadata(result.metadata, i - 1, Len(texts))]
                       /\ add_calls' = add_calls + 1
                       /\ t_pc' = "storing"
                  ELSE /\ t_pc' = "ended_exception"
                       /\ UNCHANGED <<embeddings, chunk_metadatas, add_calls>>
  /\ UNCHANGED <<USE_COGNITA_FOR_PARSING, cognita_client, fault, file, upload_dir, response,
                 index, p_pc, cognita_result, full_text, doc_chunks, cognita_metadata,
                 legal_data, result, p_error, status_reply>>
  /\ UNCHANGED <<cvars, mvars, qvars, svars>>

\* vector_store.py:68-117, upload.py:99-106: the one upsert succeeds or raises
AddDocuments ==
  /\ t_pc = "storing"
  /\ \E stored \in BOOLEAN :
       IF stored
       THEN /\ index' = index \o Points(embeddings, chunk_texts, chunk_metadatas)
            /\ t_pc' = "ended_ok"
       ELSE /\ t_pc' = "ended_exception"
            /\ UNCHANGED index
  /\ UNCHANGED <<USE_COGNITA_FOR_PARSING, cognita_client, fault, file, upload_dir, response,
                 chunk_texts, embeddings, chunk_metadatas, add_calls, p_pc,
                 cognita_result, full_text, doc_chunks, cognita_metadata, legal_data,
                 result, p_error, status_reply>>
  /\ UNCHANGED <<cvars, mvars, qvars, svars>>

\* upload.py:182-197: the reply for any document id
GetDocumentStatus ==
  /\ \E id \in {DocumentId, "d0"} :
       status_reply' = [document_id |-> id, status |-> "completed", chunks_indexed |-> 42]
  /\ UNCHANGED <<USE_COGNITA_FOR_PARSING, cognita_client, fault, file, upload_dir, response,
                 t_pc, chunk_texts, embeddings, chunk_metadatas, add_calls, index, p_pc,
                 cognita_result, full_text, doc_chunks, cognita_metadata, legal_data,
                 result, p_error>>
  /\ UNCHANGED <<cvars, mvars, qvars, svars>>

Next ==
  \/ UploadDocument
  \/ TaskStart
  \/ ProcessBegin
  \/ CognitaReturns
  \/ Fallback
  \/ Manual
  \/ ExtractMetadata
  \/ Combine
  \/ TaskResume
  \/ AddDocuments
  \/ GetDocumentStatus

Spec == Init /\ [][Next]_vars

SpecFault == InitFault /\ [][Next]_vars

(***************************************************************************)
(* Cancellation of the ingestion task (specification SpecCancel). The task  *)
(* can be cancelled where it is suspended: in the awaited parser call, the  *)
(* only await of process_document that yields to the event loop.            *)
(***************************************************************************)
Cancelled == [kind |-> "CancelledError"]

\* mutant: "except Exception" catches every exception, CancelledError included
CaughtByExceptException_All(exc) == TRUE

\* client.py:115, processor.py:266, upload.py:105: "except Exception" catches
\* the instances of Exception; asyncio.CancelledError derives from
\* BaseException
CaughtByExceptException(exc) == exc # Cancelled

\* processor.py:249, 266-271, upload.py:48, 105-106: CancelledError is thrown
\* into the task at the awaited parser call and passes the three handlers on
\* its way out
CancelTask ==
  /\ p_pc = "await_parser"
  /\ cognita_result' = Cancelled
  /\ IF CaughtByExceptException(Cancelled)
     THEN p_pc' = "fallback" /\ UNCHANGED t_pc
     ELSE p_pc' = "cancelled" /\ t_pc' = "cancelled"
  /\ UNCHANGED <<USE_COGNITA_FOR_PARSING, cognita_client, fault, file, upload_dir, response,
                 chunk_texts, embeddings, chunk_metadatas, add_calls, index,
                 full_text, doc_chunks, cognita_metadata, legal_data, result, p_error,
                 status_reply>>
  /\ UNCHANGED <<cvars, mvars, qvars, svars>>

CancelNext == Next \/ CancelTask

SpecCancel == Init /\ [][CancelNext]_vars

(***************************************************************************)
(* Concurrent calls of process_document on the processor singleton          *)
(* (specification SpecConc). The calls run on one event loop: a call runs   *)
(* without interruption up to its only await, the parser call, and from the *)
(* parser's reply to its end.                                               *)
(***************************************************************************)
\* the uploads the concurrent calls process: readable files with two
\* different texts and an unreadable one
ConcFiles ==
  {f \in Files : /\ f.filename = Chars("j.pdf") /\ f.size = 1
                 /\ f.text \in {Chars("lorem"), Chars("AIR 2020 SC 123\nP vs R")}
                 /\ (f.corrupt => f.text = Chars("lorem"))}

\* what the parser call of a concurrent call does: it raises, or replies with
\* chunks and a metadata entry
ConcResults(f) ==
  {r \in CognitaResults(f) :
     \/ r = Raised
     \/ r.kind = "return" /\ r.value.t = "dict" /\ "metadata" \in DOMAIN r.value.v}

\* upload.py:136-142: every upload is saved under a document id of its own
ConcFilePath(i) ==
  PyStr(Chars("documents/uploads/d") \o <<Chars("123456789")[i]>> \o Chars(".pdf"))

\* processor.py:296-328: extract_all, the merge and the return; the possible ends
FinishCall(fp, ft, chs, cmeta, client) ==
  IF cmeta.t # "dict" THEN {[pc |-> "raised", result |-> PyNone, error |-> "TypeError"]}
  ELSE {[pc |-> "returned", error |-> "",
         result |-> ProcessedDocument(fp, ft, chs, cmeta.v, legal, client)] :
          legal \in extract_all(ft)}

\* processor.py:269-271 and 277-292, then 296-328: the local path to its end
LocalRun(f, fp, client) ==
  LET End(local) ==
        IF local.raised THEN {[pc |-> "raised", result |-> PyNone, error |-> local.error]}
        ELSE FinishCall(fp, local.full_text, local.chunks, PyDict(EmptyDict), client)
  IN End(LocalProcessing(f, "none"))

\* processor.py:255-328: the call from the parser's outcome r to its end
AfterParser(f, fp, r, client) ==
  LET End(read) ==
        IF read.raised THEN LocalRun(f, fp, client)
        ELSE FinishCall(fp, read.full_text, read.chunks, read.cognita_metadata, client)
  IN End(ReadCognitaResult(r))

\* mutant: the arguments are kept on the processor, where the call that
\* started last has put its own
ArgumentsOf_OnProcessor(fs, i) ==
  LET last == Max({j \in DOMAIN fs : fs[j].pc # "idle"})
  IN [file |-> fs[last].file, file_path |-> fs[last].file_path]

\* processor.py:228-233: file_path is a parameter, a local of the call's own frame
ArgumentsOf(fs, i) == [file |-> fs[i].file, file_path |-> fs[i].file_path]

\* upload.py:46-52, processor.py:241-249 and 273-328: call i is made; it runs to
\* the awaited parser call, or on the manual branch to its end
ConcCall(i) ==
  /\ frames[i].pc = "idle"
  /\ \E f \in ConcFiles :
       LET started == [IdleFrame EXCEPT !.file = f, !.file_path = ConcFilePath(i)]
       IN IF cognita_client # PyNone /\ USE_COGNITA_FOR_PARSING
          THEN frames' = [frames EXCEPT ![i] = [started EXCEPT !.pc = "await_parser"]]
          ELSE \E end \in LocalRun(f, ConcFilePath(i), cognita_client) :
                 frames' = [frames EXCEPT ![i] = [started EXCEPT !.pc = end.pc,
                                                                 !.result = end.result,
                                                                 !.error = end.error]]
  /\ UNCHANGED <<cvars, mvars, pvars, svars>>

\* processor.py:249-328: the parser call of call i ends and the call runs to its end
ConcParserReturns(i) ==
  /\ frames[i].pc = "await_parser"
  /\ \E r \in ConcResults(frames[i].file) :
       \E args \in {ArgumentsOf(frames, i)} :
         \E end \in AfterParser(args.file, args.file_path, r, cognita_client) :
           frames' = [frames EXCEPT ![i] =
                        [@ EXCEPT !.pc = end.pc, !.result = end.result, !.error = end.error,
                                  !.cognita_result = r,
                                  !.overlapped =
                                     \E j \in Calls \ {i} : frames[j].pc = "await_parser"]]
  /\ UNCHANGED <<cvars, mvars, pvars, svars>>

ConcNext == \E i \in Calls : ConcCall(i) \/ ConcParserReturns(i)

SpecConc == Init /\ [][ConcNext]_vars

(***************************************************************************)
(* VectorStore._build_filter and the filtered search or count               *)
(* (specification SpecFilter). filters is the list of the dict's items; a   *)
(* stored point is the dict of its payload fields.                          *)
(***************************************************************************)
SupremeCourt == PyStr(Chars("Supreme Court"))
HighCourt == PyStr(Chars("High Court"))

\* the values drawn for the two filter keys: a scalar, lists of two, one and no
\* values, a range, and a dict that is no range
CourtFilters ==
  {SupremeCourt, PyList(<<SupremeCourt, HighCourt>>), PyList(<<HighCourt>>), PyList(<<>>)}
YearFilters ==
  {PyInt(2020), PyDict([gte |-> PyInt(2019), lte |-> PyInt(2021)]), PyDict([gt |-> PyInt(2019)])}
FilterDicts ==
  {<<>>}
    \cup {<< <<"court_level", c>> >> : c \in CourtFilters}
    \cup {<< <<"year", y>> >> : y \in YearFilters}
    \cup {<< <<"court_level", c>>, <<"year", y>> >> : c \in CourtFilters, y \in YearFilters}
    \cup {<< <<"year", y>>, <<"court_level", c>> >> : c \in CourtFilters, y \in YearFilters}

\* the stored points: payloads with a court_level and a year
Records ==
  [court_level : {SupremeCourt, HighCourt, PyStr(Chars("District Court"))},
   year : {PyInt(2018), PyInt(2020)}]

\* vector_store.py:184-192: one FieldCondition with MatchValue for each value
\* of the list, all appended to must_conditions
ListConditions(key, values) ==
  [i \in 1..Len(values) |-> [key |-> key, kind |-> "match", value |-> values[i]]]

\* vector_store.py:172-200: the conditions appended for one item of filters
ConditionsOf(key, value) ==
  IF value.t = "dict"
  THEN IF "gte" \in DOMAIN value.v \/ "lte" \in DOMAIN value.v
       THEN <<[key |-> key, kind |-> "range",
               gte |-> Get(value.v, "gte", PyNone), lte |-> Get(value.v, "lte", PyNone)]>>
       ELSE <<>>
  ELSE IF value.t = "list" THEN ListConditions(key, value.v)
  ELSE <<[key |-> key, kind |-> "match", value |-> value]>>

RECURSIVE MustConditions(_)
\* vector_store.py:169-200: must_conditions after the loop over filters.items()
MustConditions(items) ==
  IF items = <<>> THEN <<>>
  ELSE ConditionsOf(items[1][1], items[1][2]) \o MustConditions(Tail(items))

\* vector_store.py:202: Filter(must=must_conditions), None when there are none
build_filter(items) ==
  LET must_conditions == MustConditions(items)
  IN IF must_conditions # <<>> THEN [t |-> "Filter", must |-> must_conditions] ELSE PyNone

\* vector_store.py:147-153, 241-244: how the store reads one FieldCondition: a
\* match holds when the field equals the value, a range when the field lies
\* within the bounds given
Satisfies(point, cond) ==
  /\ cond.key \in DOMAIN point
  /\ CASE cond.kind = "match" -> point[cond.key] = cond.value
       [] cond.kind = "range" ->
            /\ point[cond.key].t = "int"
            /\ cond.gte # PyNone => point[cond.key].v >= cond.gte.v
            /\ cond.lte # PyNone => point[cond.key].v <= cond.lte.v

\* vector_store.py:147-153, 241-244: a point passes query_filter when there
\* is none or when it satisfies every condition under must
PassesFilter(point, query_filter) ==
  query_filter = PyNone
    \/ \A i \in 1..Len(query_filter.must) : Satisfies(point, query_filter.must[i])

FilterInit ==
  /\ f_pc = "call"
  /\ filters \in FilterDicts
  /\ record \in Records
  /\ filter_conditions = PyNone
  /\ hit = FALSE
  /\ ChunkIdle /\ MetaIdle /\ PipeIdle /\ ConcIdle /\ StartupIdle /\ RagIdle

\* vector_store.py:141-144, 239: "if filters" guards the call of _build_filter
BuildFilter ==
  /\ f_pc = "call"
  /\ filter_conditions' = IF filters # <<>> THEN build_filter(filters) ELSE PyNone
  /\ f_pc' = "built"
  /\ UNCHANGED <<filters, record, hit>>
  /\ UNCHANGED <<cvars, mvars, pvars, qvars, uvars, lvars>>

\* vector_store.py:147-153, 241-245: the store applies the filter to the point
ApplyFilter ==
  /\ f_pc = "built"
  /\ hit' = PassesFilter(record, filter_conditions)
  /\ f_pc' = "done"
  /\ UNCHANGED <<filters, record, filter_conditions>>
  /\ UNCHANGED <<cvars, mvars, pvars, qvars, uvars, lvars>>

FilterNext == BuildFilter \/ ApplyFilter

SpecFilter == FilterInit /\ [][FilterNext]_vars

(***************************************************************************)
(* Application startup and the service singletons (specification            *)
(* SpecStartup). Requests and ingestion tasks are served once startup_event *)
(* has returned; a collaborator that is down makes a connection or a model  *)
(* load raise.                                                              *)
(***************************************************************************)
\* vector_store.py:36-40: the connected client
QdrantClient == [t |-> "QdrantClient"]
\* embedder.py:29, 42: the loaded model
SentenceTransformer == [t |-> "SentenceTransformer"]

\* vector_store.py:24-27: VectorStore()
NewVectorStore == [t |-> "VectorStore", client |-> PyNone, initialized |-> FALSE]
\* embedder.py:17-19: Embedder()
NewEmbedder == [t |-> "Embedder", model |-> PyNone]

\* vector_store.py:29-62: _ensure_initialized on store vs: nothing to do, or
\* the client is made and the collection looked up, which may raise
EnsureInitialized(vs) ==
  IF vs.initialized /\ vs.client # PyNone
  THEN {[raised |-> FALSE, first |-> FALSE, store |-> vs]}
  ELSE {[raised |-> FALSE, first |-> TRUE,
         store |-> [vs EXCEPT !.client = QdrantClient, !.initialized = TRUE]],
        \* lines 36-40 passed, get_collections raised
        [raised |-> TRUE, first |-> TRUE, store |-> [vs EXCEPT !.client = QdrantClient]]}

\* embedder.py:37-45: _ensure_model_loaded on embedder e
EnsureModelLoaded(e) ==
  IF e.model # PyNone
  THEN {[raised |-> FALSE, first |-> FALSE, embedder |-> e]}
  ELSE {[raised |-> FALSE, first |-> TRUE, embedder |-> [e EXCEPT !.model = SentenceTransformer]],
        [raised |-> TRUE, first |-> TRUE, embedder |-> e]}

\* vector_store.py:263-268: get_vector_store()
GetVectorStore(g) == IF g = PyNone THEN NewVectorStore ELSE g
\* embedder.py:90-95: get_embedder()
GetEmbedder(g) == IF g = PyNone THEN NewEmbedder ELSE g

\* who uses the singletons: a request handler (search.py) or an ingestion task
\* (upload.py)
Callers == {"request", "task"}

StartupInit ==
  /\ u_pc = "boot" /\ cognita_health = ""
  /\ startup_store = PyNone /\ startup_embedder = PyNone
  /\ g_vector_store = PyNone /\ g_embedder = PyNone
  /\ class_model_loaded = FALSE /\ request_inits = {}
  /\ ChunkIdle /\ MetaIdle /\ PipeIdle /\ ConcIdle /\ FilterIdle /\ RagIdle

\* main.py:115-132: the Cognita health check; none of its outcomes raises
StartupCheckCognita ==
  /\ u_pc = "boot"
  /\ cognita_health' \in {"unhealthy", "collection_exists", "collection_created",
                          "collections_error"}
  /\ u_pc' = "cognita_checked"
  /\ UNCHANGED <<startup_store, startup_embedder, g_vector_store, g_embedder,
                 class_model_loaded, request_inits>>
  /\ UNCHANGED <<cvars, mvars, pvars, qvars, fvars, lvars>>

\* main.py:135-138: "vector_store = VectorStore(); await vector_store.initialize()"
StartupInitializeStore ==
  /\ u_pc = "cognita_checked"
  /\ \E out \in EnsureInitialized(NewVectorStore) :
       /\ startup_store' = out.store
       /\ u_pc' = IF out.raised THEN "failed" ELSE "store_ready"
  /\ UNCHANGED <<cognita_health, startup_embedder, g_vector_store, g_embedder,
                 class_model_loaded, request_inits>>
  /\ UNCHANGED <<cvars, mvars, pvars, qvars, fvars, lvars>>

\* main.py:141-144, embedder.py:21-35: "embedder = Embedder(); await
\* embedder.load_model()"
StartupLoadModel ==
  /\ u_pc = "store_ready"
  /\ \E out \in EnsureModelLoaded(NewEmbedder) :
       /\ startup_embedder' = out.embedder
       /\ class_model_loaded' = (class_model_loaded \/ ~out.raised)
       /\ u_pc' = IF out.raised THEN "failed" ELSE "model_ready"
  /\ UNCHANGED <<cognita_health, startup_store, g_vector_store, g_embedder, request_inits>>
  /\ UNCHANGED <<cvars, mvars, pvars, qvars, fvars, lvars>>

\* main.py:147-156: the LLM client is made and startup_event returns
StartupReturn ==
  /\ u_pc = "model_ready"
  /\ u_pc' = "started"
  /\ UNCHANGED <<cognita_health, startup_store, startup_embedder, g_vector_store,
                 g_embedder, class_model_loaded, request_inits>>
  /\ UNCHANGED <<cvars, mvars, pvars, qvars, fvars, lvars>>

\* upload.py:92-97, search.py:71, 140: a handler or task takes the store from
\* get_vector_store() and calls an operation, which begins with
\* _ensure_initialized
UseVectorStore ==
  /\ u_pc = "started"
  /\ \E who \in Callers, out \in EnsureInitialized(GetVectorStore(g_vector_store)) :
       /\ g_vector_store' = out.store
       /\ request_inits' = IF out.first THEN request_inits \cup {<<who, "vector_store">>}
                                        ELSE request_inits
  /\ UNCHANGED <<u_pc, cognita_health, startup_store, startup_embedder, g_embedder,
                 class_model_loaded>>
  /\ UNCHANGED <<cvars, mvars, pvars, qvars, fvars, lvars>>

\* upload.py:73-74, search.py:70: a handler or task takes the embedder from
\* get_embedder() and embeds, which begins with _ensure_model_loaded
UseEmbedder ==
  /\ u_pc = "started"
  /\ \E who \in Callers, out \in EnsureModelLoaded(GetEmbedder(g_embedder)) :
       /\ g_embedder' = out.embedder
       /\ class_model_loaded' = (class_model_loaded \/ (out.first /\ ~out.raised))
       /\ request_inits' = IF out.first THEN request_inits \cup {<<who, "embedder">>}
                                        ELSE request_inits
  /\ UNCHANGED <<u_pc, cognita_health, startup_store, startup_embedder, g_vector_store>>
  /\ UNCHANGED <<cvars, mvars, pvars, qvars, fvars, lvars>>

StartupNext ==
  \/ StartupCheckCognita
  \/ StartupInitializeStore
  \/ StartupLoadModel
  \/ StartupReturn
  \/ UseVectorStore
  \/ UseEmbedder

SpecStartup == StartupInit /\ [][StartupNext]_vars

(***************************************************************************)
(* LlamaIndexRAG (specification SpecRag). initialize is synchronous and the *)
(* two search coroutines never await, so every call runs without            *)
(* interruption.                                                            *)
(***************************************************************************)
\* where initialize can raise: in the set-up of lines 35-78 (imports, Qdrant
\* client, embedding model, LLM), in VectorStoreIndex.from_vector_store (line
\* 80), in index.as_query_engine (line 87), or nowhere
InitFailures == {"setup", "index", "query_engine", "none"}

\* llamaindex_service.py:80-83: the index made
VectorStoreIndex == [t |-> "VectorStoreIndex"]
\* llamaindex_service.py:87-91: the query engine made, similarity_top_k=5
QueryEngine(top_k) == [t |-> "QueryEngine", similarity_top_k |-> top_k]

\* mutant: _initialized is set before the steps are run
initialize_FlagFirst(r, fail_at) ==
  IF r.initialized THEN [rag |-> r, attempted |-> FALSE, raised |-> FALSE]
  ELSE CASE fail_at \in {"setup", "index"} ->
              [rag |-> [r EXCEPT !.initialized = TRUE], attempted |-> TRUE, raised |-> TRUE]
         [] fail_at = "query_engine" ->
              [rag |-> [r EXCEPT !.initialized = TRUE, !.index = VectorStoreIndex],
               attempted |-> TRUE, raised |-> TRUE]
         [] fail_at = "none" ->
              [rag |-> [r EXCEPT !.index = VectorStoreIndex, !.query_engine = QueryEngine(5),
                                 !.initialized = TRUE],
               attempted |-> TRUE, raised |-> FALSE]

\* llamaindex_service.py:25-98: initialize on the object r, raising at fail_at
initialize(r, fail_at) ==
  IF r.initialized THEN [rag |-> r, attempted |-> FALSE, raised |-> FALSE]
  ELSE CASE fail_at \in {"setup", "index"} ->
              [rag |-> r, attempted |-> TRUE, raised |-> TRUE]
         [] fail_at = "query_engine" ->
              [rag |-> [r EXCEPT !.index = VectorStoreIndex], attempted |-> TRUE, raised |-> TRUE]
         [] fail_at = "none" ->
              [rag |-> [r EXCEPT !.index = VectorStoreIndex, !.query_engine = QueryEngine(5),
                                 !.initialized = TRUE],
               attempted |-> TRUE, raised |-> FALSE]

\* llamaindex_service.py:116-117, 163-164: "if not self._initialized:
\* self.initialize()"
EnsureRag(r, fail_at) ==
  IF ~r.initialized THEN initialize(r, fail_at)
  ELSE [rag |-> r, attempted |-> FALSE, raised |-> FALSE]

\* the record of a call that found r and whose initialization ended as init
CallRecord(op, r, init) ==
  [NoCall EXCEPT !.op = op, !.flag_before = r.initialized,
                 !.partial_before = (~r.initialized /\ r.index # PyNone),
                 !.attempted = init.attempted, !.init_raised = init.raised,
                 !.raised = init.raised]

RagInit ==
  /\ rag = NewRag /\ l_calls = 0 /\ l_last = NoCall
  /\ ChunkIdle /\ MetaIdle /\ PipeIdle /\ ConcIdle /\ FilterIdle /\ StartupIdle

\* llamaindex_service.py:25-98: a call of initialize
RagInitialize ==
  /\ l_calls < MaxRagCalls
  /\ \E fail_at \in InitFailures :
       \E init \in {initialize(rag, fail_at)} :
         /\ rag' = init.rag
         /\ l_last' = CallRecord("initialize", rag, init)
  /\ l_calls' = l_calls + 1
  /\ UNCHANGED <<cvars, mvars, pvars, qvars, fvars, uvars>>

\* llamaindex_service.py:100-151: search_and_answer; line 123 writes top_k into
\* the query engine (AttributeError when there is none), line 126 queries
SearchAndAnswer ==
  /\ l_calls < MaxRagCalls
  /\ \E fail_at \in InitFailures, top_k \in {3, 5}, query_raises \in BOOLEAN :
       \E init \in {EnsureRag(rag, fail_at)} :
         IF init.raised
         THEN /\ rag' = init.rag
              /\ l_last' = CallRecord("search_and_answer", rag, init)
         ELSE /\ rag' = IF init.rag.query_engine = PyNone THEN init.rag
                        ELSE [init.rag EXCEPT !.query_engine = QueryEngine(top_k)]
              /\ l_last' = [CallRecord("search_and_answer", rag, init) EXCEPT
                              !.used = "query_engine",
                              !.flag_at_use = init.rag.initialized,
                              !.set_at_use = (init.rag.query_engine # PyNone),
                              !.raised = (init.rag.query_engine = PyNone \/ query_raises)]
  /\ l_calls' = l_calls + 1
  /\ UNCHANGED <<cvars, mvars, pvars, qvars, fvars, uvars>>

\* llamaindex_service.py:153-187: search_only; line 170 takes a retriever from
\* the index (AttributeError when there is none), line 171 retrieves
SearchOnly ==
  /\ l_calls < MaxRagCalls
  /\ \E fail_at \in InitFailures, retrieve_raises \in BOOLEAN :
       \E init \in {EnsureRag(rag, fail_at)} :
         /\ rag' = init.rag
         /\ l_last' = IF init.raised THEN CallRecord("search_only", rag, init)
                       ELSE [CallRecord("search_only", rag, init) EXCEPT
                               !.used = "index",
                               !.flag_at_use = init.rag.initialized,
                               !.set_at_use = (init.rag.index # PyNone),
                               !.raised = (init.rag.index = PyNone \/ retrieve_raises)]
  /\ l_calls' = l_calls + 1
  /\ UNCHANGED <<cvars, mvars, pvars, qvars, fvars, uvars>>

RagNext == RagInitialize \/ SearchAndAnswer \/ SearchOnly

SpecRag == RagInit /\ [][RagNext]_vars

(***************************************************************************)
(* Claims about process_document and the ingestion task.                    *)
(***************************************************************************)
\* the parser was called and the try block raised on what it did
ParserFailed == cognita_result # NoReply /\ ReadCognitaResult(cognita_result).raised
\* the parser was called and the try block read its reply to the end
FromParser == cognita_result # NoReply /\ ~ReadCognitaResult(cognita_result).raised
\* the branch without a parser call is the one process_document takes
ManualBranch == ~(cognita_client # PyNone /\ USE_COGNITA_FOR_PARSING)
\* the text and the chunks are made locally
LocalPath == ManualBranch \/ ParserFailed

ProcessedDocumentFields ==
  {"full_text", "chunks", "metadata", "segments", "num_chunks", "num_precedents"}

\* C2: when the call of the external parser fails (it raises, or returns what
\* cannot be read as chunks) and the local text extraction succeeds,
\* process_document does not raise; the document it returns has all six fields:
\* the file's text, the fallback chunker's chunks of that text, the metadata and
\* the segments extract_all gives for it, and the two counts.
C2_FallbackReturnsDocument ==
  (ParserFailed /\ ~file.corrupt) =>
    /\ p_pc \in {"fallback", "extract_meta", "combine", "returned"}
    /\ p_pc = "returned" =>
         /\ DOMAIN result = ProcessedDocumentFields
         /\ result.full_text = file.text
         /\ LET cs == chunk_text_simple(file.text, DefaultChunkSize, DefaultOverlap)
            IN result.chunks = [i \in 1..Len(cs) |-> PyStr(cs[i])]
         /\ \E r \in extract_all(file.text) :
              /\ result.segments = r.segments
              /\ \A k \in DOMAIN r.metadata : result.metadata[k] = r.metadata[k]
         /\ result.num_chunks = Len(result.chunks)
         /\ result.num_precedents = Len(result.metadata["precedents_cited"].v)

\* C2 witness: the parser call raised and a document with a chunk was returned
C2_Witness ==
  /\ p_pc = "returned"
  /\ cognita_result = Raised
  /\ result.num_chunks = 1
  /\ "citation" \in DOMAIN result.metadata

\* C3: a returned document says processing_method "manual" when the parser
\* call failed and the local fallback made its text and chunks, and "hybrid"
\* only when they came from the parser.
C3_MethodTellsSource ==
  p_pc = "returned" =>
    result.metadata["processing_method"] =
      PyStr(IF FromParser THEN Chars("hybrid") ELSE Chars("manual"))

\* the local step that fails in this run, decided by the file and the fault
ExtractionFails == LocalPath /\ file.corrupt
ChunkingFails == LocalPath /\ ~file.corrupt /\ fault = "chunking"
MetadataFails == fault = "metadata" /\ ~ExtractionFails

\* C4: when local text extraction raises (on the manual branch or in the
\* fallback after a parser failure), or chunking raises, or extract_all raises,
\* process_document returns no document: once the failing step has run it has
\* raised that step's error, and it has made no text, chunks or metadata by
\* other means.
C4_FatalErrorsPropagate ==
  /\ (ExtractionFails \/ ChunkingFails \/ fault = "metadata") =>
       p_pc # "returned" /\ result = PyNone
  /\ ExtractionFails =>
       \/ p_pc \in {"idle", "start", "manual", "fallback"}
       \/ p_pc = "raised" /\ p_error = "extraction"
  /\ ChunkingFails =>
       \/ p_pc \in {"idle", "start", "manual", "fallback"}
       \/ p_pc = "raised" /\ p_error = "chunking"
  /\ MetadataFails =>
       \/ p_pc \in {"idle", "start", "await_parser", "manual", "fallback", "extract_meta"}
       \/ p_pc = "raised" /\ p_error = "metadata"
  /\ (p_pc = "raised" /\ p_error \in {"extraction", "chunking"}) =>
       full_text = <<>> /\ doc_chunks = <<>> /\ legal_data = NoResult
  /\ (p_pc = "raised" /\ p_error = "metadata") => legal_data = NoResult

\* C4 witness: the parser failed, the fallback's text extraction raised, and
\* process_document raised that error
C4_Witness ==
  /\ ParserFailed
  /\ file.corrupt
  /\ p_pc = "raised"
  /\ p_error = "extraction"

\* C5: add_documents is called at most once in a task, and only when
\* process_document has returned at least one chunk and there is an embedding
\* for every chunk; when process_document raised it is never called; the index
\* holds nothing of a document whose task ended without storing.
C5_NoIndexEntryForFailedDocument ==
  /\ add_calls <= 1
  /\ add_calls = 1 =>
       /\ p_pc = "returned"
       /\ Len(result.chunks) >= 1
       /\ Len(embeddings) = Len(result.chunks)
  /\ p_pc = "raised" => add_calls = 0 /\ index = <<>>
  /\ t_pc \in {"ended_exception", "ended_no_chunks"} => index = <<>>
  /\ index # <<>> => Len(index) = Len(result.chunks)

\* C5 witness: text extraction raised, the task ended, nothing was indexed
C5_Witness ==
  /\ t_pc = "ended_exception"
  /\ p_pc = "raised"
  /\ p_error = "extraction"
  /\ add_calls = 0
  /\ index = <<>>

\* C6: an accepted upload is answered with status "processing" before its
\* task runs, and once the task has ended in failure a status check for the
\* document never answers "completed".
C6_FailureIsReported ==
  /\ [](t_pc # "none" => response.status = "processing")
  /\ [][(t_pc = "ended_exception" /\ status_reply'.document_id = DocumentId)
          => status_reply'.status # "completed"]_vars

\* the keys process_document itself adds to the merged metadata
AddedKeys == {"document_type", "file_path", "processing_method"}

\* C11: in the metadata of a returned document, a key that only the parser's
\* metadata has (no legal field, none of the keys the call adds) keeps the
\* parser's value; every key of the extracted legal metadata has the legal
\* value, also when the parser's metadata has the key; document_type and
\* file_path equal the arguments of the call whatever the parser's metadata
\* holds under those keys; and there are no other keys.
C11_MergeOrder ==
  p_pc = "returned" =>
    LET cm == cognita_metadata.v
        lm == legal_data.metadata
        md == result.metadata
    IN /\ DOMAIN md = DOMAIN cm \cup DOMAIN lm \cup AddedKeys
       /\ \A k \in DOMAIN cm \ (DOMAIN lm \cup AddedKeys) : md[k] = cm[k]
       /\ \A k \in DOMAIN lm : md[k] = lm[k]
       /\ md["document_type"] = DocumentType
       /\ md["file_path"] = FilePath(file)

\* C11 witness: a document returned from a parser reply whose metadata has a
\* key of its own, a citation and a judges entry that collide with the legal
\* metadata, and its own document_type and file_path
C11_Witness ==
  /\ p_pc = "returned"
  /\ FromParser
  /\ {"source", "citation", "judges", "document_type", "file_path"} \subseteq DOMAIN cognita_metadata.v
  /\ "citation" \in DOMAIN legal_data.metadata
  /\ result.metadata["citation"] # cognita_metadata.v["citation"]
  /\ result.metadata["source"] = PyStr(Chars("cognita"))
  /\ cognita_metadata.v["document_type"] # DocumentType

(***************************************************************************)
(* Claims about segment_judgment (specification SpecMeta).                  *)
(***************************************************************************)
\* the keyword matches of the text of the call, as sorted (start, kind) pairs
KeywordMatches == SectionPositions(m_text)
\* of the matches km: the start of the i-th and of the one after it (the end of
\* the text after the last)
MatchStart(km, i) == km[i][1]
NextMatchStart(km, i) == IF i < Len(km) THEN km[i + 1][1] ELSE Len(m_text)
\* the matches that are the first of their kind
FirstOfKind(km) == {i \in 1..Len(km) : \A j \in 1..(i - 1) : km[j][2] # km[i][2]}
\* the returned segment of the kind of the i-th match
SegmentAt(km, i) == m_result.segments[km[i][2]].v

RECURSIVE ConcatFrom(_, _, _)
\* part(i) \o part(i + 1) \o ... \o part(n)
ConcatFrom(part(_), i, n) == IF i > n THEN <<>> ELSE part(i) \o ConcatFrom(part, i + 1, n)

\* C12 (as claimed): the returned segments, concatenated in offset order, are
\* exactly the text from the first keyword match to the end of the text.
C12_SegmentsConcatenateToTail ==
  LET Holds(km) ==
        LET kept == SelectSeq([i \in 1..Len(km) |-> i], LAMBDA i : i \in FirstOfKind(km))
            Part(k) == SegmentAt(km, kept[k])
        IN Len(km) > 0 =>
             ConcatFrom(Part, 1, Len(kept)) = Slice(m_text, MatchStart(km, 1), Len(m_text))
  IN m_pc = "done" => Holds(KeywordMatches)

\* C12 (amended): every returned segment is a span of the text that starts at
\* the first keyword match of its kind and ends at or before the next keyword
\* match of any kind, so no two overlap; what lies between its end and that
\* next match (or the end of the text) is whitespace only; and when no kind's
\* keyword matches twice, the segments, each followed by that whitespace,
\* concatenate in offset order to exactly the text from the first match on.
C12_SegmentsAreDisjointSpans ==
  LET Holds(km) ==
        LET SegmentEndAt(i) == MatchStart(km, i) + Len(SegmentAt(km, i))
            Part(i) == SegmentAt(km, i) \o Slice(m_text, SegmentEndAt(i), NextMatchStart(km, i))
        IN Len(km) > 0 =>
             /\ DOMAIN m_result.segments = {km[i][2] : i \in FirstOfKind(km)}
             /\ \A i \in FirstOfKind(km) :
                  /\ SegmentAt(km, i) # <<>>
                  /\ SegmentEndAt(i) <= NextMatchStart(km, i)
                  /\ SegmentAt(km, i) = Slice(m_text, MatchStart(km, i), SegmentEndAt(i))
                  /\ \A c \in (SegmentEndAt(i) + 1)..NextMatchStart(km, i) : IsSpace(m_text[c])
             /\ \A i, j \in FirstOfKind(km) : i < j => SegmentEndAt(i) <= MatchStart(km, j)
             /\ FirstOfKind(km) = 1..Len(km) =>
                  ConcatFrom(Part, 1, Len(km)) = Slice(m_text, MatchStart(km, 1), Len(m_text))
  IN m_pc = "done" => Holds(KeywordMatches)

\* C12 witness: two segments were returned, whitespace between them
C12_Witness ==
  /\ m_pc = "done"
  /\ DOMAIN m_result.segments = {"facts", "held"}
  /\ Len(KeywordMatches) = 2
  /\ MatchStart(KeywordMatches, 1) + Len(SegmentAt(KeywordMatches, 1))
       < MatchStart(KeywordMatches, 2)

\* the matches of the keywords of one kind, left to right
MatchesOfKind(kind) == FindIter(SegmentPattern(kind), m_text)
NoKeywordMatch ==
  \A k \in 1..Len(SegmentKinds) : Search(SegmentPattern(SegmentKinds[k]), m_text) = None

\* C14: segment_judgment returns exactly {"full_text": the unmodified input} if
\* and only if no keyword matches; when a keyword matches, the key full_text is
\* absent.
C14_FullTextIffNoKeyword ==
  m_pc = "done" =>
    /\ (m_result.segments = [k \in {"full_text"} |-> PyStr(m_text)]) = NoKeywordMatch
    /\ ~NoKeywordMatch => "full_text" \notin DOMAIN m_result.segments

\* C14 witness: a text without keywords that ends with whitespace was returned whole
C14_Witness ==
  /\ m_pc = "done"
  /\ NoKeywordMatch
  /\ m_text # <<>> /\ IsSpace(m_text[Len(m_text)])
  /\ m_result.segments["full_text"].v = m_text

(***************************************************************************)
(* Claims about the pattern extractors (specification SpecMeta).            *)
(***************************************************************************)
CourtLevels == {Chars("Supreme Court"), Chars("High Court"), Chars("District Court")}

\* C15: extract_court returns (None, None) or a pair (name, level) with a
\* non-null name and a level among Supreme Court, High Court and District
\* Court; the level is Supreme Court when the name contains "supreme court",
\* else High Court when it contains "high court", else District Court; in the
\* metadata of extract_all court_name and court_level are both present, with
\* the pair's values, or both absent.
C15_CourtNameAndLevel ==
  LET Holds(court, md) ==
        /\ \/ court = <<PyNone, PyNone>>
           \/ /\ court[1].t = "str" /\ court[1].v # <<>>
              /\ court[2].t = "str" /\ court[2].v \in CourtLevels
              /\ court[2].v =
                   IF Contains(Lower(court[1].v), Chars("supreme court")) THEN Chars("Supreme Court")
                   ELSE IF Contains(Lower(court[1].v), Chars("high court")) THEN Chars("High Court")
                   ELSE Chars("District Court")
        /\ ("court_name" \in DOMAIN md) = ("court_level" \in DOMAIN md)
        /\ ("court_name" \in DOMAIN md) = (court[1] # PyNone)
        /\ "court_name" \in DOMAIN md =>
             md["court_name"] = court[1] /\ md["court_level"] = court[2]
  IN m_pc = "done" => Holds(extract_court(m_text), m_result.metadata)

\* C15 witness: a high court was found
C15_Witness ==
  /\ m_pc = "done"
  /\ "court_name" \in DOMAIN m_result.metadata
  /\ m_result.metadata["court_level"] = PyStr(Chars("High Court"))

\* C16: the citation is the whole match of the first pattern, in list order,
\* that matches anywhere in the text, also when a later pattern matches at an
\* earlier offset; without a match extract_citation returns None (the key is
\* absent from the metadata), never an empty string.
C16_FirstPatternWins ==
  LET Holds(ms, citation, md) ==
        LET matching == {n \in 1..Len(ms) : ms[n] # None}
        IN IF matching = {}
           THEN citation = PyNone /\ "citation" \notin DOMAIN md
           ELSE /\ citation = PyStr(Slice(m_text, ms[Min(matching)].start, ms[Min(matching)].end))
                /\ citation.v # <<>>
                /\ "citation" \in DOMAIN md /\ md["citation"] = citation
  IN m_pc = "done" =>
       Holds([n \in 1..Len(CitationPatterns) |-> Search(CitationPatterns[n], m_text)],
             extract_citation(m_text), m_result.metadata)

\* C16 witness: the AIR citation was returned although an SCR citation stands
\* before it in the text
C16_Witness ==
  /\ m_pc = "done"
  /\ m_text = Chars("2018 SCR 77\nAIR 2020 SC 123")
  /\ m_result.metadata["citation"] = PyStr(Chars("AIR 2020 SC 123"))

\* C17: at most 5 judges are returned for every text, and for the text
\* "CORAM: A, B, C, D, E, F" exactly the first five names, in order.
C17_FirstFiveJudges ==
  m_pc = "done" =>
    /\ Len(m_result.metadata["judges"].v) <= 5
    /\ m_text = Chars("CORAM: A, B, C, D, E, F") =>
         m_result.metadata["judges"].v = <<Chars("A"), Chars("B"), Chars("C"), Chars("D"), Chars("E")>>

\* C18: the sections are exactly "Article N of Constitution" for every match
\* of the Article pattern, N its whole captured number, and "Section N of ACT"
\* for every match of the Section pattern; the acts are exactly "Constitution
\* of India" when an Article matched and the ACT of every Section match.
C18_ActsAndSectionsOfMatches ==
  LET Holds(articles, sections, md) ==
        /\ Elements(md["sections_cited"].v) =
             {Chars("Article ") \o Group(m_text, articles[i], 1) \o Chars(" of Constitution") :
                i \in 1..Len(articles)}
             \cup {Chars("Section ") \o Group(m_text, sections[i], 1) \o Chars(" of ")
                     \o Group(m_text, sections[i], 2) : i \in 1..Len(sections)}
        /\ Elements(md["acts_cited"].v) =
             (IF articles # <<>> THEN {Chars("Constitution of India")} ELSE {})
             \cup {Group(m_text, sections[i], 2) : i \in 1..Len(sections)}
  IN m_pc = "done" =>
       Holds(FindIter(ArticlePattern, m_text), FindIter(SectionPattern, m_text),
             m_result.metadata)

\* C19: every match of each of extract_citation's patterns is among the
\* precedents (no text of the model has more than 20), so the citation that
\* extract_citation returns is among them.
C19_PrecedentsHoldEveryCitation ==
  LET Holds(precedents, md) ==
        /\ \A n \in 1..Len(CitationPatterns) :
             LET AllIn(ms) == \A i \in 1..Len(ms) : Group0(m_text, ms[i]) \in precedents
             IN AllIn(FindIter(CitationPatterns[n], m_text))
        /\ "citation" \in DOMAIN md => md["citation"].v \in precedents
  IN m_pc = "done" =>
       Holds(Elements(m_result.metadata["precedents_cited"].v), m_result.metadata)

(***************************************************************************)
(* Claims about concurrent calls (specification SpecConc).                  *)
(***************************************************************************)
\* how a call has ended
EndOf(fr) == [pc |-> fr.pc, result |-> fr.result, error |-> fr.error]
\* how the call of frame fr can end when no other call is made: from its own
\* arguments and the outcome of its own parser call
EndsAlone(fr) ==
  IF cognita_client # PyNone /\ USE_COGNITA_FOR_PARSING
  THEN AfterParser(fr.file, fr.file_path, fr.cognita_result, cognita_client)
  ELSE LocalRun(fr.file, fr.file_path, cognita_client)

\* C20: however the calls interleave at the awaited parser call, every call
\* that has ended has returned the record (or raised the error) it would when
\* run alone; a step of one call changes no other call's state; and no step
\* writes the state the calls share, the processor's client and the setting.
C20_CallsDoNotInterfere ==
  /\ [](\A i \in Calls :
          frames[i].pc \in {"returned", "raised"} => EndOf(frames[i]) \in EndsAlone(frames[i]))
  /\ [][\A i \in Calls :
          frames'[i] # frames[i] => \A j \in Calls \ {i} : frames'[j] = frames[j]]_vars
  /\ [][/\ cognita_client' = cognita_client
        /\ USE_COGNITA_FOR_PARSING' = USE_COGNITA_FOR_PARSING]_vars

\* C20 witness: calls 1 and 2 on different files have both returned; call 1
\* resumed from its parser call while call 2 was suspended in its own
C20_Witness ==
  /\ frames[1].pc = "returned" /\ frames[2].pc = "returned"
  /\ frames[1].overlapped
  /\ frames[1].file # frames[2].file
  /\ frames[1].result.full_text # frames[2].result.full_text

(***************************************************************************)
(* Further claims about _chunk_text_simple (specification SpecChunk).       *)
(***************************************************************************)
\* C22: on the empty string the call returns an empty list without raising,
\* for every chunk_size and overlap: it returns at once, the loop body never
\* runs and no chunk is cut.
C22_EmptyTextEmptyList ==
  /\ (c_pc = "done" /\ text = <<>>) =>
        chunks = <<>> /\ chunk_count = 0 /\ chunk = Unset /\ final_chunk = Unset
  /\ text = <<>> => c_pc \in {"call", "done"}

\* C22 witness: the call has returned for the empty string with a chunk_size
\* that is not positive and an overlap not below it.
C22_Witness == c_pc = "done" /\ text = <<>> /\ chunk_size <= 0 /\ overlap >= chunk_size

\* C24 (as claimed): the loop keeps producing windows while position < len(text)
\* and fewer than 1000 chunks have been emitted (a window that emits nothing
\* does not consume the budget); each window is
\* text[position : min(position + size, len(text))] stripped, and the position
\* then advances by max(size - overlap, 1).
C24_BudgetCountsEmittedChunks ==
  [][c_pc = "loop" =>
       IF position < Len(text) /\ Len(chunks) < 1000
       THEN /\ IsIteration
            /\ chunk' = Strip(Slice(text, position, MinInt(position + chunk_size, Len(text))))
            /\ position' = position + Max({chunk_size - overlap, 1})
       ELSE ~IsIteration /\ c_pc' = "done"]_vars

\* the offset in the text of the k-th returned chunk: the start of the slice it
\* was cut from plus the leading whitespace strip() removed
ContentOffset(k) ==
  LET slice == Slice(text, spans[k][1], spans[k][2])
  IN spans[k][1] + Min({i \in 1..Len(slice) : ~IsSpace(slice[i])}) - 1

\* C29: every element of the returned list (chunk_size >= 1) is non-empty, has
\* no leading or trailing whitespace, is at most chunk_size characters long and
\* is a contiguous substring of the input, found at the offset it was cut
\* from; the elements are in increasing order of source offset: the slices
\* they were cut from start at strictly increasing positions, and the offsets
\* of the stripped elements never decrease.
C29_ChunksAreOrderedSubstrings ==
  (c_pc = "done" /\ chunk_size >= 1) =>
    /\ Len(spans) = Len(chunks)
    /\ \A k \in 1..Len(chunks) :
          /\ chunks[k] # <<>>
          /\ ~IsSpace(chunks[k][1]) /\ ~IsSpace(chunks[k][Len(chunks[k])])
          /\ Len(chunks[k]) <= chunk_size
          /\ chunks[k] = Slice(text, ContentOffset(k), ContentOffset(k) + Len(chunks[k]))
    /\ \A k \in 1..(Len(chunks) - 1) :
          /\ spans[k][1] < spans[k + 1][1]
          /\ ContentOffset(k) <= ContentOffset(k + 1)

\* C29 witness: a returned list of at least three chunks, one of them cut from
\* a slice that began with whitespace, and two different neighbours that start
\* at the same character of the text.
C29_Witness ==
  /\ c_pc = "done" /\ chunk_size >= 1 /\ Len(chunks) >= 3
  /\ \E k \in 1..(Len(chunks) - 1) :
        /\ ContentOffset(k) > spans[k][1]
        /\ ContentOffset(k) = ContentOffset(k + 1)
        /\ chunks[k] # chunks[k + 1]

(***************************************************************************)
(* The end-to-end scenario of extract_all (specification SpecMeta).         *)
(***************************************************************************)
\* the seven metadata entries the scenario lists
ScenarioMetadata ==
  [k \in {"citation", "court_name", "court_level", "judges", "bench_strength",
          "decision_date", "parties"} |->
     CASE k = "citation" -> PyStr(Chars("AIR 2020 SC 123"))
       [] k = "court_name" -> PyStr(Chars("Supreme Court Of India"))
       [] k = "court_level" -> PyStr(Chars("Supreme Court"))
       [] k = "judges" -> PyList(<<Chars("J. SMITH"), Chars("J. DOE")>>)
       [] k = "bench_strength" -> PyInt(2)
       [] k = "decision_date" -> PyStr(Chars("2020-06-05"))
       [] k = "parties" -> PyList(<<Chars("Petitioner vs Respondent")>>)]

\* the three list entries extract_all adds to them
ScenarioListEntries ==
  [k \in {"precedents_cited", "acts_cited", "sections_cited"} |->
     IF k = "precedents_cited" THEN PyList(<<Chars("AIR 2020 SC 123")>>) ELSE PyList(<<>>)]

\* C23 (as claimed): for the scenario's text extract_all returns metadata equal
\* to the seven listed entries, and segments with at least the keys facts and
\* held.
C23_ScenarioMetadataEquals ==
  (m_pc = "done" /\ m_text = ScenarioText) =>
    /\ m_result.metadata = ScenarioMetadata
    /\ {"facts", "held"} \subseteq DOMAIN m_result.segments

\* C23 (amended): the metadata holds the seven listed entries with the listed
\* values and, besides them, precedents_cited = ["AIR 2020 SC 123"],
\* acts_cited = [] and sections_cited = []; the segments have the keys facts
\* and held, held being the text from the word JUDGMENT of the DATED line up
\* to the FACTS line.
C23_ScenarioMetadataContains ==
  (m_pc = "done" /\ m_text = ScenarioText) =>
    /\ m_result.metadata = DictMerge(ScenarioMetadata, ScenarioListEntries)
    /\ m_result.segments =
         [k \in {"facts", "held"} |->
            IF k = "facts" THEN PyStr(Chars("FACTS: ..."))
            ELSE PyStr(Chars("JUDGMENT\nPetitioner vs Respondent"))]

\* C23 witness: extract_all has returned for the scenario's text.
C23_Witness ==
  /\ m_pc = "done" /\ m_text = ScenarioText
  /\ "citation" \in DOMAIN m_result.metadata
  /\ "held" \in DOMAIN m_result.segments

(***************************************************************************)
(* Further claims about the ingestion of an upload (specifications Spec and *)
(* SpecFault).                                                              *)
(***************************************************************************)
\* the two reasons for which upload_document rejects the uploaded file
BadExtension == Lower(Suffix(file.filename)) \notin ALLOWED_EXTENSIONS
Oversized == file.size > MAX_UPLOAD_SIZE_MB * 1024 * 1024

\* C21: an upload whose extension is not in ALLOWED_EXTENSIONS, or whose stored
\* size exceeds MAX_UPLOAD_SIZE_MB, is answered by a rejection (status 400)
\* that carries the reason; from then on no background task is scheduled,
\* process_document is not called, nothing reaches the index, the uploaded file
\* is not in the upload directory, and the upload is not made again.
C21_RejectedUploadLeavesNothing ==
  (response # NoResponse /\ (BadExtension \/ Oversized)) =>
    /\ response.status_code = 400
    /\ response.detail[1] = IF BadExtension THEN "File type not supported"
                                            ELSE "File too large. Maximum size"
    /\ t_pc = "none" /\ p_pc = "idle"
    /\ upload_dir = {}
    /\ add_calls = 0 /\ index = <<>>

\* C21 witness: a file with an allowed extension and one byte more than the
\* limit has been saved, rejected and deleted.
C21_Witness ==
  /\ response # NoResponse /\ response.status_code = 400
  /\ ~BadExtension /\ Oversized
  /\ upload_dir = {} /\ t_pc = "none"

\* C25 (as claimed): for a successfully ingested document with n chunks,
\* exactly n payloads are handed to the index in chunk order, each under an id
\* of its own; the payload at position i (0-based) has chunk_index = i,
\* total_chunks = n, the document id assigned at upload, the upload's
\* document_type, and text equal to the i-th chunk's text, whatever keys the
\* merged document metadata contains.
C25_PayloadsFollowChunks ==
  t_pc = "ended_ok" =>
    LET n == Len(result.chunks)
    IN /\ Len(index) = n
       /\ \A i, j \in 1..Len(index) : index[i].id = index[j].id => i = j
       /\ \A i \in 1..Len(index) :
             LET payload == index[i].payload
             IN /\ payload["chunk_index"] = PyInt(i - 1)
                /\ payload["total_chunks"] = PyInt(n)
                /\ payload["document_id"] = PyStr(Chars(DocumentId))
                /\ payload["document_type"] = DocumentType
                /\ payload["text"] = PyStr(ChunkText(result.chunks[i]))

\* C26: when the ingestion task is cancelled while suspended in the parser
\* call, the cancellation is not handled as a parser failure: from then on no
\* fallback extraction or chunking has run, process_document has produced no
\* ProcessedDocument (nor an error of its own), the task has ended without
\* embedding anything, and nothing is handed to the index for the document.
C26_CancellationDiscardsEverything ==
  cognita_result = Cancelled =>
    /\ p_pc = "cancelled" /\ t_pc = "cancelled"
    /\ full_text = <<>> /\ doc_chunks = <<>> /\ legal_data = NoResult
    /\ result = PyNone /\ p_error = ""
    /\ chunk_texts = <<>> /\ embeddings = <<>>
    /\ add_calls = 0 /\ index = <<>>

\* C26 witness: the task of an accepted upload of a readable file with text was
\* cancelled in the parser call.
C26_Witness ==
  /\ cognita_result = Cancelled /\ t_pc = "cancelled"
  /\ upload_dir = {DocumentId} /\ ~file.corrupt /\ file.text = Chars("lorem")

(***************************************************************************)
(* Claims about the filtered search (specification SpecFilter).             *)
(***************************************************************************)
\* what the claim takes one item of filters to require of a stored point
ItemHolds(point, key, value) ==
  IF value.t = "list" THEN \E i \in 1..Len(value.v) : point[key] = value.v[i]
  ELSE \A i \in 1..Len(ConditionsOf(key, value)) : Satisfies(point, ConditionsOf(key, value)[i])

\* C27 (as claimed): a filter key whose value is a list is an OR condition: a
\* stored record satisfies it when its field equals any one of the listed
\* values; the conditions for different keys are combined conjunctively.
C27_ListValueIsDisjunction ==
  f_pc = "done" =>
    hit = \A i \in 1..Len(filters) : ItemHolds(record, filters[i][1], filters[i][2])

(***************************************************************************)
(* Claims about startup and the service singletons (specification           *)
(* SpecStartup).                                                            *)
(***************************************************************************)
\* C28 (as claimed): after startup_event has completed without error, the
\* services that handlers and ingestion tasks obtain through
\* get_vector_store() and get_embedder() are already initialized (client
\* connected, model loaded), so no request or ingestion task performs a
\* first-time initialization.
C28_SingletonsReadyAfterStartup ==
  u_pc = "started" =>
    /\ GetVectorStore(g_vector_store).initialized
    /\ GetVectorStore(g_vector_store).client # PyNone
    /\ GetEmbedder(g_embedder).model # PyNone
    /\ request_inits = {}

(***************************************************************************)
(* Claims about LlamaIndexRAG (specification SpecRag).                      *)
(***************************************************************************)
\* C30: for any sequence of initialize, search_and_answer and search_only
\* calls in which initialize may fail at any step: _initialized is true only
\* when both index and query_engine are set; the index or the query engine is
\* used only in a state where _initialized is true (and the attribute is set);
\* a failed initialize leaves _initialized false, and a call that finds
\* _initialized false attempts the initialization again and does not query
\* when that fails.
C30_InitializedGuardsUse ==
  /\ rag.initialized => rag.index # PyNone /\ rag.query_engine # PyNone
  /\ l_last.used # "none" => l_last.flag_at_use /\ l_last.set_at_use
  /\ l_last.init_raised => ~rag.initialized /\ l_last.used = "none" /\ l_last.raised
  /\ (l_last.op # "none" /\ ~l_last.flag_before) => l_last.attempted
  /\ l_last.flag_before => ~l_last.attempted

\* C30 witness: a search_and_answer call found the object after an
\* initialization that had failed with the index already assigned, ran
\* initialize again, and queried the engine once that had succeeded.
C30_Witness ==
  /\ l_last.op = "search_and_answer" /\ l_last.partial_before
  /\ l_last.attempted /\ ~l_last.init_raised
  /\ l_last.used = "query_engine" /\ rag.initialized

====
